---- MODULE Spec2Model ----
(***************************************************************************)
(* Model of the asset-reference resolution and external-dependency         *)
(* internalization pipeline of the website-to-ZIM converter:               *)
(*   converter/external_deps.py   find_external_urls, url_to_local_path,   *)
(*                                download_resource,                       *)
(*                                resolve_external_dependencies,           *)
(*                                replace_external_urls                    *)
(*   converter/file_processor.py  process_html_content                     *)
(* Text is modelled character by character: a Python str is a TLA+ string, *)
(* indexed from 1, and every text function below is computed the way the   *)
(* Python code computes it.                                                *)
(***************************************************************************)
EXTENDS Integers, Sequences, FiniteSets, TLC

(***************************************************************************)
(* Python str primitives.  A value that is used more than once is passed   *)
(* to a helper operator as a parameter.                                    *)
(***************************************************************************)

\* s[i-1] in Python terms; "" when i is out of range
Ch(s, i) == IF i >= 1 /\ i <= Len(s) THEN SubSeq(s, i, i) ELSE ""

\* s[i-1:] : the text from position i to the end
From(s, i) == SubSeq(s, i, Len(s))

\* s.startswith(p, i-1)
StartsWithAt(s, p, i) == i >= 1 /\ i + Len(p) - 1 <= Len(s) /\ SubSeq(s, i, i + Len(p) - 1) = p

startswith(s, p) == StartsWithAt(s, p, 1)

endswith(s, p) == Len(p) <= Len(s) /\ SubSeq(s, Len(s) - Len(p) + 1, Len(s)) = p

\* the least element of a set of positions, the value none for the empty set
MinOr(I, none) == IF I = {} THEN none ELSE CHOOSE j \in I : \A k \in I : j <= k

\* the greatest element of a set of positions, 0 for the empty set
MaxOr0(I) == IF I = {} THEN 0 ELSE CHOOSE j \in I : \A k \in I : k <= j

\* s.find(sub, i-1) + 1 : the first position >= i where sub occurs, 0 when there is none
find(s, sub, i) == MinOr({j \in i..(Len(s) - Len(sub) + 1) : StartsWithAt(s, sub, j)}, 0)

\* s.rfind(c) + 1 for a single character c: the last position of c, 0 when there is none
rfind(s, c) == MaxOr0({j \in 1..Len(s) : Ch(s, j) = c})

\* the first position >= i holding a character of the set cs, Len(s)+1 when none
find_any(s, cs, i) == MinOr({j \in i..Len(s) : Ch(s, j) \in cs}, Len(s) + 1)

\* s.replace(old, new) for a non-empty old: every non-overlapping occurrence,
\* left to right; the text produced by one replacement is not searched again.
\* replace_from gives the result for the text from position start on, whose
\* next occurrence of old is at position i (0: none).
RECURSIVE replace_from(_, _, _, _, _)
replace_from(s, old, new, start, i) ==
    IF i = 0 THEN From(s, start)
    ELSE SubSeq(s, start, i - 1) \o new
         \o replace_from(s, old, new, i + Len(old), find(s, old, i + Len(old)))

str_replace(s, old, new) == replace_from(s, old, new, 1, find(s, old, 1))

\* s.count(sub): the number of non-overlapping occurrences, left to right
RECURSIVE count_from(_, _, _)
count_from(s, sub, i) == IF i = 0 THEN 0 ELSE 1 + count_from(s, sub, find(s, sub, i + Len(sub)))

count(s, sub) == count_from(s, sub, find(s, sub, 1))

\* s.lstrip('/')
lstrip_slash(s) == From(s, MinOr({j \in 1..Len(s) : Ch(s, j) # "/"}, Len(s) + 1))

\* "../" * depth
RECURSIVE dotdot(_)
dotdot(depth) == IF depth <= 0 THEN "" ELSE "../" \o dotdot(depth - 1)

\* s.partition(c) cut at position i (0 when c does not occur): <<before, after>>
cut_at(s, i) == IF i = 0 THEN <<s, "">> ELSE <<SubSeq(s, 1, i - 1), From(s, i + 1)>>

Quotes == {"\"", "'"}

\* the characters the regex class \s matches
Whitespace == {" ", "\t", "\n", "\r", "\f"}

\* the characters the regex class \w matches (ASCII)
WordChars ==
    {"a","b","c","d","e","f","g","h","i","j","k","l","m","n","o","p","q","r","s",
     "t","u","v","w","x","y","z","A","B","C","D","E","F","G","H","I","J","K","L",
     "M","N","O","P","Q","R","S","T","U","V","W","X","Y","Z","0","1","2","3","4",
     "5","6","7","8","9","_"}

HexDigits ==
    {"0","1","2","3","4","5","6","7","8","9","a","b","c","d","e","f","A","B","C","D","E","F"}

(***************************************************************************)
(* url_to_local_path (external_deps.py 55-94) and the library functions it *)
(* calls: urllib.parse.urlparse, urllib.parse.unquote, os.path.splitext,   *)
(* hashlib.md5.                                                            *)
(***************************************************************************)

\* urlparse, last step: the params are cut from the path at the first ';' of
\* the last path segment (_splitparams)
parse_params(scheme, netloc, url, query, fragment) ==
    [scheme |-> scheme,
     netloc |-> netloc,
     path |-> cut_at(url, find(url, ";", MinOr({rfind(url, "/")} \ {0}, 1)))[1],
     params |-> cut_at(url, find(url, ";", MinOr({rfind(url, "/")} \ {0}, 1)))[2],
     query |-> query,
     fragment |-> fragment]

\* urlparse, third step: uf = <<url, fragment>>; the query is cut at the first '?'
parse_query(scheme, netloc, uf) ==
    parse_params(scheme, netloc,
                 cut_at(uf[1], find(uf[1], "?", 1))[1],
                 cut_at(uf[1], find(uf[1], "?", 1))[2],
                 uf[2])

\* urlparse, second step: rest is the text after "scheme:"; the netloc runs from
\* after "//" to the first of / ? # at position delim, and the fragment is cut
\* at the first '#' of what follows
parse_netloc(scheme, rest, delim) ==
    parse_query(scheme,
                IF startswith(rest, "//") THEN SubSeq(rest, 3, delim - 1) ELSE "",
                cut_at(From(rest, delim), find(From(rest, delim), "#", 1)))

parse_rest(scheme, rest) ==
    parse_netloc(scheme, rest,
                 IF startswith(rest, "//") THEN find_any(rest, {"/", "?", "#"}, 3) ELSE 1)

\* urlparse(url) for a URL that starts with a scheme and ':' (here http or https)
urlparse(url) == parse_rest(cut_at(url, find(url, ":", 1))[1], cut_at(url, find(url, ":", 1))[2])

\* the character a %XX escape decodes to; the table holds the escapes the inputs use
Unhex(pair) ==
    CASE pair = "40" -> "@"
      [] pair \in {"2F", "2f"} -> "/"
      [] pair \in {"2E", "2e"} -> "."
      [] pair \in {"5F", "5f"} -> "_"
      [] pair = "61" -> "a"

\* unquote(s): every %XX with two hex digits is decoded, any other '%' is kept.
\* unquote_from gives the result for the text from position start on, whose
\* next '%' is at position i (0: none).
RECURSIVE unquote_from(_, _, _)
unquote_from(s, start, i) ==
    IF i = 0 THEN From(s, start)
    ELSE IF Ch(s, i + 1) \in HexDigits /\ Ch(s, i + 2) \in HexDigits
         THEN SubSeq(s, start, i - 1) \o Unhex(SubSeq(s, i + 1, i + 2))
              \o unquote_from(s, i + 3, find(s, "%", i + 3))
         ELSE SubSeq(s, start, i) \o unquote_from(s, i + 1, find(s, "%", i + 1))

unquote(s) == unquote_from(s, 1, find(s, "%", 1))

\* os.path.splitext(p) for the last '/' at position sep and the last '.' at
\* position dot: <<root, ext>>; ext starts at the last '.' of the last component,
\* unless only dots precede it there
splitext_at(p, sep, dot) ==
    IF dot > sep /\ \E k \in (sep + 1)..(dot - 1) : Ch(p, k) # "."
    THEN <<SubSeq(p, 1, dot - 1), From(p, dot)>>
    ELSE <<p, "">>

splitext(p) == splitext_at(p, rfind(p, "/"), rfind(p, "."))

\* hashlib.md5(query.encode()).hexdigest()[:8], tabulated for the query strings
\* the inputs use (the values are the real digests; "v=10599" and "v=72686"
\* share their first 8 hex digits)
md5_hex8(query) ==
    CASE query = "v=1" -> "38609a28"
      [] query = "v=2" -> "5e1f15b6"
      [] query = "v=10599" -> "48236d22"
      [] query = "v=72686" -> "48236d22"

\* lines 85-88: the hash goes before the extension ext of path, or before a
\* synthetic ".css"
with_query_hash(path, ext, query_hash) ==
    IF ext # ""
    THEN SubSeq(path, 1, Len(path) - Len(ext)) \o "_q_" \o query_hash \o ext
    ELSE path \o "_q_" \o query_hash \o ".css"

\* a derivation that leaves the query string out of the name
with_query_dropped(path, query) == path

\* lines 80-88
with_query(path, query) ==
    IF query # "" THEN with_query_hash(path, splitext(path)[2], md5_hex8(query)) ELSE path

\* lines 91-92
with_index(path) == IF path = "" \/ endswith(path, "/") THEN path \o "index" ELSE path

\* a derivation that leaves the domain out of the path
local_path_without_domain(parsed) ==
    "_external/"
    \o with_index(with_query(str_replace(lstrip_slash(unquote(parsed.path)), "@", "_"),
                             parsed.query))

\* lines 73-94, for parsed = urlparse(url)
local_path_of(parsed) ==
    "_external/" \o parsed.netloc \o "/"
    \o with_index(with_query(str_replace(lstrip_slash(unquote(parsed.path)), "@", "_"),
                             parsed.query))

url_to_local_path(url) ==
    local_path_of(urlparse(IF startswith(url, "//") THEN "https:" \o url ELSE url))

(***************************************************************************)
(* The URL mapping is a Python dict: a sequence of <<url, local_path>>     *)
(* pairs in insertion order, at most one pair per url.                     *)
(***************************************************************************)

Keys(m) == [i \in 1..Len(m) |-> m[i][1]]

KeySet(m) == {m[i][1] : i \in 1..Len(m)}

\* m[url] for a key of m
Get(m, url) == m[CHOOSE i \in 1..Len(m) : m[i][1] = url][2]

\* m[url] = value: a new key goes last, a key already there keeps its place
Put(m, url, value) ==
    IF url \in KeySet(m)
    THEN [i \in 1..Len(m) |-> IF m[i][1] = url THEN <<url, value>> ELSE m[i]]
    ELSE Append(m, <<url, value>>)

\* the sequence keys without its i-th element
Without(keys, i) == SubSeq(keys, 1, i - 1) \o SubSeq(keys, i + 1, Len(keys))

\* the position of the first longest element of a non-empty sequence of strings
FirstLongest(keys) ==
    CHOOSE i \in 1..Len(keys) :
        /\ \A j \in 1..Len(keys) : Len(keys[j]) <= Len(keys[i])
        /\ \A j \in 1..(i - 1) : Len(keys[j]) < Len(keys[i])

\* sorted(keys, key=len, reverse=True): longest first, and stable, so keys of
\* the same length keep their dict order.  sorted_from continues with the
\* element at position i.
RECURSIVE sorted_from(_, _)
sorted_from(keys, i) ==
    IF Len(keys) = 1 THEN keys
    ELSE <<keys[i]>> \o sorted_from(Without(keys, i), FirstLongest(Without(keys, i)))

sorted_len_desc(keys) == IF Len(keys) = 0 THEN <<>> ELSE sorted_from(keys, FirstLongest(keys))

\* the loop of replace_external_urls (lines 262-264): one str.replace per key,
\* in the given order
RECURSIVE replace_in_order(_, _, _, _)
replace_in_order(content, order, url_mapping, prefix) ==
    IF Len(order) = 0 THEN content
    ELSE replace_in_order(str_replace(content, Head(order), prefix \o Get(url_mapping, Head(order))),
                          Tail(order), url_mapping, prefix)

replace_external_urls(content, url_mapping, depth) ==
    replace_in_order(content, sorted_len_desc(Keys(url_mapping)), url_mapping, dotdot(depth))

(***************************************************************************)
(* find_external_urls (external_deps.py 27-52): the four regular           *)
(* expressions, matched as re.finditer matches them (leftmost match,       *)
(* greedy, the scan resumes where a match ended).  A match is a record     *)
(* [g |-> group(1), e |-> position of the last matched character]; e = 0   *)
(* when the pattern does not match at the position.                        *)
(***************************************************************************)

NoMatch == [g |-> "", e |-> 0]

\* the position after an optional "https:" or "http:" at position j
after_scheme(s, j) ==
    IF StartsWithAt(s, "https:", j) THEN j + 6
    ELSE IF StartsWithAt(s, "http:", j) THEN j + 5
    ELSE j

\* //[^stop]+ at position k, the class running to the position e of the first
\* stop character: the position of the last character, 0 when the match fails
url_end_at(s, k, e) == IF StartsWithAt(s, "//", k) /\ e > k + 2 THEN e - 1 ELSE 0

url_end_from(s, k, stop) == url_end_at(s, k, find_any(s, stop, k + 2))

\* ((https?:)?//[^stop]+) at position j: the position of its last character, 0
\* when it fails
url_end(s, j, stop) == url_end_from(s, after_scheme(s, j), stop)

\* attr="URL" for an attribute name at position i, the URL from position j to ue
match_attr_at(s, i, attr, j, ue) ==
    IF /\ StartsWithAt(s, attr, i)
       /\ Ch(s, j - 1) \in Quotes
       /\ ue > 0
       /\ Ch(s, ue + 1) \in Quotes
    THEN [g |-> SubSeq(s, j, ue), e |-> ue + 1]
    ELSE NoMatch

\* attr=["']((https?:)?//[^"']+)["'] at position i, for attr = "src=" or "href="
match_attr(s, i, attr) ==
    match_attr_at(s, i, attr, i + Len(attr) + 1, url_end(s, i + Len(attr) + 1, Quotes))

\* _RE_SRC
match_src(s, i) == match_attr(s, i, "src=")

\* the positions k of the href attributes that <link\b[^>]*\bhref=... can reach
\* from a "<link" at position i: no '>' lies before k, and a word boundary does
link_hrefs(s, i, limit) ==
    {k \in (i + 6)..limit : Ch(s, k - 1) \notin WordChars /\ match_attr(s, k, "href=").e > 0}

\* [^>]* is greedy, so the last href in K is the one matched
match_last_href(s, i, K) ==
    IF StartsWithAt(s, "<link", i) /\ Ch(s, i + 5) \notin WordChars /\ K # {}
    THEN match_attr(s, MaxOr0(K), "href=")
    ELSE NoMatch

\* _RE_LINK_HREF
match_link_href(s, i) == match_last_href(s, i, link_hrefs(s, i, find_any(s, {">"}, i + 5)))

\* url( URL ) with the URL from position j to ue and the ')' expected at close
match_css_url_at(s, i, j, ue, close) ==
    IF StartsWithAt(s, "url(", i) /\ ue > 0 /\ Ch(s, close) = ")"
    THEN [g |-> SubSeq(s, j, ue), e |-> close]
    ELSE NoMatch

match_css_url_from(s, i, j, ue) ==
    match_css_url_at(s, i, j, ue, IF Ch(s, ue + 1) \in Quotes THEN ue + 2 ELSE ue + 1)

\* _RE_CSS_URL: url\(["']?((https?:)?//[^"')\s]+)["']?\)
match_css_url(s, i) ==
    match_css_url_from(s, i, IF Ch(s, i + 4) \in Quotes THEN i + 5 ELSE i + 4,
                       url_end(s, IF Ch(s, i + 4) \in Quotes THEN i + 5 ELSE i + 4,
                               Quotes \cup {")"} \cup Whitespace))

\* the first position >= i that holds no whitespace
skip_ws(s, i) == MinOr({j \in i..Len(s) : Ch(s, j) \notin Whitespace}, Len(s) + 1)

\* @import, whitespace up to position j, then "URL" with the URL ending at ue
match_css_import_at(s, i, j, ue) ==
    IF /\ StartsWithAt(s, "@import", i)
       /\ j > i + 7
       /\ Ch(s, j) \in Quotes
       /\ ue > 0
       /\ Ch(s, ue + 1) \in Quotes
    THEN [g |-> SubSeq(s, j + 1, ue), e |-> ue + 1]
    ELSE NoMatch

\* _RE_CSS_IMPORT: @import\s+["']((https?:)?//[^"']+)["']
match_css_import(s, i) ==
    match_css_import_at(s, i, skip_ws(s, i + 7), url_end(s, skip_ws(s, i + 7) + 1, Quotes))

match_at(pattern, s, i) ==
    CASE pattern = "_RE_SRC" -> match_src(s, i)
      [] pattern = "_RE_LINK_HREF" -> match_link_href(s, i)
      [] pattern = "_RE_CSS_URL" -> match_css_url(s, i)
      [] pattern = "_RE_CSS_IMPORT" -> match_css_import(s, i)

\* the leftmost position >= i where the pattern matches, 0 when there is none
next_match(pattern, s, i) == MinOr({k \in i..Len(s) : match_at(pattern, s, k).e > 0}, 0)

\* {match.group(1) for match in pattern.finditer(s)} for the matches from
\* position j on (0: no match left); the scan resumes where a match ended
RECURSIVE finditer_from(_, _, _, _)
finditer_from(pattern, s, j, m) ==
    IF j = 0 THEN {}
    ELSE {m.g} \cup finditer_from(pattern, s, next_match(pattern, s, m.e + 1),
                                  match_at(pattern, s, next_match(pattern, s, m.e + 1)))

finditer(pattern, s) ==
    finditer_from(pattern, s, next_match(pattern, s, 1), match_at(pattern, s, next_match(pattern, s, 1)))

find_external_urls(content) ==
    UNION {finditer(pattern, content) :
             pattern \in {"_RE_SRC", "_RE_LINK_HREF", "_RE_CSS_URL", "_RE_CSS_IMPORT"}}

(***************************************************************************)
(* The Site Tree: the set of the files under the root, each a path         *)
(* relative to the root ("about/index.html").  Its directories are the     *)
(* proper prefixes of the files' paths.                                    *)
(***************************************************************************)

\* s.split(c) for a single character c; split_from gives the fields from
\* position start on, the next c being at position i (0: none)
RECURSIVE split_from(_, _, _, _)
split_from(s, c, start, i) ==
    IF i = 0 THEN <<From(s, start)>>
    ELSE <<SubSeq(s, start, i - 1)>> \o split_from(s, c, i + 1, find(s, c, i + 1))

split(s, c) == split_from(s, c, 1, find(s, c, 1))

\* the components of a path as pathlib keeps them: empty and "." components dropped
Parts(path) == SelectSeq(split(path, "/"), LAMBDA c : c # "" /\ c # ".")

RECURSIVE Join(_)
Join(parts) ==
    IF Len(parts) = 0 THEN ""
    ELSE IF Len(parts) = 1 THEN parts[1]
    ELSE parts[1] \o "/" \o Join(Tail(parts))

\* load_path / path, relative to load_path
NormPath(path) == Join(Parts(path))

\* the proper prefixes of a sequence of components
Prefixes(parts) == {SubSeq(parts, 1, n) : n \in 0..(Len(parts) - 1)}

TreeFiles(tree) == {Parts(f) : f \in tree}

TreeDirs(tree) == {<<>>} \cup UNION {Prefixes(Parts(f)) : f \in tree}

\* the file-system walk of os.stat from the directory cur over the components
\* parts: a name must be an entry of the directory reached so far, ".." goes to
\* its parent; the tree says nothing about what lies above the root, and a walk
\* that leaves it finds nothing
RECURSIVE walk(_, _, _)
walk(tree, cur, parts) ==
    IF Len(parts) = 0 THEN cur \in TreeFiles(tree) \cup TreeDirs(tree)
    ELSE IF cur \notin TreeDirs(tree) THEN FALSE
    ELSE IF Head(parts) = ".."
         THEN Len(cur) > 0 /\ walk(tree, SubSeq(cur, 1, Len(cur) - 1), Tail(parts))
         ELSE walk(tree, Append(cur, Head(parts)), Tail(parts))

\* (load_path / path).exists()
exists(tree, path) == walk(tree, <<>>, Parts(path))

(***************************************************************************)
(* process_html_content (file_processor.py 21-54)                          *)
(***************************************************************************)

\* lines 48-50: the warning is appended unless the list holds it already
add_warning(lst_missing_index, warning_msg) ==
    IF \E k \in 1..Len(lst_missing_index) : lst_missing_index[k] = warning_msg
    THEN lst_missing_index
    ELSE Append(lst_missing_index, warning_msg)

\* check_and_replace_index(match) for link = match.group(1): <<the replacement
\* text, lst_missing_index afterwards>>
check_and_replace_index(link, tree, lst_missing_index, relpath) ==
    IF exists(tree, lstrip_slash(link) \o "/" \o "index.html")
    THEN <<link \o "/index.html\"", lst_missing_index>>
    ELSE <<link \o "/\"",
           add_warning(lst_missing_index,
                       relpath \o " -> Link '" \o link \o "/' has no index.html")>>

\* the pattern of line 53 for an attribute at position i whose opening quote
\* ends at position i + p - 1 and whose next '"' is at position q
match_index_link_at(s, i, p, q) ==
    IF p > 0 /\ q > i + p /\ Ch(s, q - 1) = "/"
    THEN [g |-> SubSeq(s, i, q - 1), e |-> q - 1]
    ELSE NoMatch

\* the length of the attribute prefix href=" or src=" at position i, 0 when
\* neither is there
attr_prefix(s, i) ==
    IF StartsWithAt(s, "href=\"", i) THEN 6
    ELSE IF StartsWithAt(s, "src=\"", i) THEN 5
    ELSE 0

\* ((?:href="|src=")(?:\.\./)*[^"]*/)(?=") at position i: [^"]* runs to the first
\* '"', so the pattern matches when the character before that '"' is a '/' that
\* lies after the attribute's opening quote; group(1) is the text from the
\* attribute name to that '/', both included, and the '"' is not consumed
match_index_link(s, i) ==
    match_index_link_at(s, i, attr_prefix(s, i), find(s, "\"", i + attr_prefix(s, i)))

next_index_link(s, i) == MinOr({k \in i..Len(s) : match_index_link(s, k).e > 0}, 0)

\* re.sub(pattern, check_and_replace_index, data) for the text from position i
\* on: <<the rewritten text, lst_missing_index afterwards>>.  j is the position
\* of the next match (0: none), m the match, r what check_and_replace_index
\* returns for it, rest the result for the text after the match.
RECURSIVE sub_index_links(_, _, _, _, _)

sub_join(s, i, j, r, rest) == <<SubSeq(s, i, j - 1) \o r[1] \o rest[1], rest[2]>>

sub_replaced(s, i, j, m, r, tree, relpath) ==
    sub_join(s, i, j, r, sub_index_links(s, m.e + 1, tree, r[2], relpath))

sub_match(s, i, j, m, tree, lst_missing_index, relpath) ==
    IF j = 0 THEN <<From(s, i), lst_missing_index>>
    ELSE sub_replaced(s, i, j, m, check_and_replace_index(m.g, tree, lst_missing_index, relpath),
                      tree, relpath)

sub_index_links_at(s, i, j, tree, lst_missing_index, relpath) ==
    sub_match(s, i, j, match_index_link(s, j), tree, lst_missing_index, relpath)

sub_index_links(s, i, tree, lst_missing_index, relpath) ==
    sub_index_links_at(s, i, next_index_link(s, i), tree, lst_missing_index, relpath)

\* the four str.replace calls of lines 36-39
root_relative(data, depth) ==
    str_replace(
        str_replace(
            str_replace(
                str_replace(data, "href=\"/", "href=\"" \o dotdot(depth)),
                "src=\"/", "src=\"" \o dotdot(depth)),
            "url(/", "url(" \o dotdot(depth)),
        "url(\"/", "url(\"" \o dotdot(depth))

\* <<the processed HTML, lst_missing_index afterwards>>
process_html_content(data, depth, tree, lst_missing_index, relpath) ==
    sub_index_links(root_relative(data, depth), 1, tree, lst_missing_index, relpath)

(***************************************************************************)
(* The world a run of resolve_external_dependencies works in: the site's   *)
(* documents, and the bodies the remote servers return.                    *)
(***************************************************************************)

\* the index of the last stylesheet of the import chain S0 -> S1 -> ... (S0..S5)
ChainLen == 5

Digit(k) ==
    CASE k = 0 -> "0" [] k = 1 -> "1" [] k = 2 -> "2" [] k = 3 -> "3" [] k = 4 -> "4"
      [] k = 5 -> "5" [] k = 6 -> "6" [] k = 7 -> "7" [] k = 8 -> "8" [] k = 9 -> "9"

\* the k-th stylesheet of the chain
ChainUrl(k) == "https://c/" \o Digit(k) \o ".css"

\* the body served for a request of url (a https or http URL)
RemoteBody(url) ==
    IF \E k \in 0..ChainLen : url = ChainUrl(k)
    THEN LET k == CHOOSE k \in 0..ChainLen : url = ChainUrl(k)
         IN IF k < ChainLen THEN "@import \"" \o ChainUrl(k + 1) \o "\";" ELSE "body{}"
    ELSE IF url = "https://h/a.css" THEN "@font-face{src:url(//h/f.woff)}"
    ELSE IF url = "https://h/e.css" THEN ""
    ELSE IF url = "https://y/a.css" THEN "@import \"//y/b.css\";"
    ELSE IF url = "https://y/b.css" THEN "@import \"//y/a.css\";"
    ELSE "DATA"

\* a site whose only external reference starts the import chain
SiteChain == ("index.html" :> "<link rel=\"stylesheet\" href=\"https://c/0.css\">")

\* a site that references one stylesheet under both alias spellings, and a font
\* that the stylesheet references too
SiteAlias ==
    ("index.html" :> "<link href=\"//h/a.css\"><a href=\"http://h/a.css\">a</a>") @@
    ("d/p.html" :> "<link href=\"https://h/a.css\">") @@
    ("s.css" :> "@font-face{src:url(//h/f.woff)}")

\* a site that references a stylesheet with and without a query string
SiteQuery ==
    ("index.html" :> "<link href=\"https://h/a.css\"><link href=\"https://h/a.css?v=2\">")

\* a site without external resources (an anchor is not a resource)
SitePlain == ("index.html" :> "<a href=\"https://n/x\">x</a><img src=\"/i.png\">")

\* a site that references a resource and a stylesheet below it: the local path of
\* the one is a parent directory of the local path of the other
SiteNest ==
    ("index.html" :> "<script src=\"https://h/a\"></script><link href=\"https://h/a/b.css\">")

\* a site that references a URL whose path climbs with ".." segments, and that
\* has a file of that name at its root
SiteEscape ==
    ("index.html" :> "<img src=\"https://h/../../logo.png\">") @@ ("logo.png" :> "LOCAL")

\* a site whose stylesheet is imported back by the stylesheet it imports, under
\* the other alias spelling
SiteCycle == ("index.html" :> "<link href=\"https://y/a.css\">")

Sites == {SiteChain, SiteAlias, SiteQuery, SitePlain, SiteNest, SiteEscape, SiteCycle}

(***************************************************************************)
(* The file system a run works on: the files (path -> content) and the     *)
(* directories, keyed by their location relative to the root.  A location  *)
(* is a sequence of components; one that starts with ".." lies above the   *)
(* root.  The ancestors of the root are directories; what else lies above  *)
(* the root is only what the run has put there.                            *)
(***************************************************************************)

\* the directories of a tree on disk
site_dirs(tree) == {Join(q) : q \in TreeDirs(DOMAIN tree) \ {<<>>}}

\* the location reached from the directory cur by one path component
step(cur, name) ==
    IF name # ".." THEN Append(cur, name)
    ELSE IF Len(cur) = 0 \/ cur[Len(cur)] = ".." THEN Append(cur, "..")
    ELSE SubSeq(cur, 1, Len(cur) - 1)

\* the location p is a directory: the root, one of its ancestors, or a made one
is_dir(fs_dirs, p) == (\A i \in 1..Len(p) : p[i] = "..") \/ Join(p) \in fs_dirs

\* the result of a path lookup that fails (ENOENT, ENOTDIR)
NoPath == <<"">>

\* the location the system resolves the components parts to, from the directory
\* cur: every component but the last must lead through a directory
RECURSIVE lookup(_, _, _)
lookup(fs_dirs, cur, parts) ==
    IF Len(parts) = 0 THEN cur
    ELSE IF ~is_dir(fs_dirs, cur) THEN NoPath
    ELSE lookup(fs_dirs, step(cur, Head(parts)), Tail(parts))

\* a test that never finds the destination
never_exists(found, fs_files, fs_dirs) == FALSE

\* dest.exists() and dest.stat().st_size > 0 (line 113), for the location found
\* of dest; a directory has a size above 0
exists_nonempty(found, fs_files, fs_dirs) ==
    /\ found # NoPath
    /\ \/ is_dir(fs_dirs, found)
       \/ Join(found) \in DOMAIN fs_files /\ Len(fs_files[Join(found)]) > 0

\* dest.parent.mkdir(parents=True, exist_ok=True) (line 119) for the components
\* parts of the parent, from the directory cur: every prefix is made a
\* directory unless it is one; a prefix that is a regular file raises.
\* [ok, dirs, at]: at is the location of the parent.
RECURSIVE mkdir_parents(_, _, _, _)
RECURSIVE mkdir_step(_, _, _, _)
mkdir_parents(fs_files, fs_dirs, cur, parts) ==
    IF Len(parts) = 0 THEN [ok |-> TRUE, dirs |-> fs_dirs, at |-> cur]
    ELSE mkdir_step(fs_files, fs_dirs, step(cur, Head(parts)), Tail(parts))

mkdir_step(fs_files, fs_dirs, nxt, rest) ==
    IF Join(nxt) \in DOMAIN fs_files THEN [ok |-> FALSE, dirs |-> fs_dirs, at |-> nxt]
    ELSE mkdir_parents(fs_files,
                       IF is_dir(fs_dirs, nxt) THEN fs_dirs ELSE fs_dirs \cup {Join(nxt)},
                       nxt, rest)

\* what the disk does with f.write(data) (line 133): it takes the whole body
\* ("ok"), or the write raises OSError when a part of the body is in the file
WriteOutcomes == {"ok", "partial"}

\* lines 130-135 when the response was read: open(dest, 'wb') fails on a
\* directory (caught, line 136), else the file is opened at the location target,
\* which empties it, and the body is written into it; a write that fails midway
\* is caught (line 136) and leaves the part written, here all but the last
\* character
write_body(url, body, io, target, fs_files, fs_dirs) ==
    IF is_dir(fs_dirs, target)
    THEN [ret |-> "False", files |-> fs_files, dirs |-> fs_dirs, requested |-> <<url>>]
    ELSE IF io = "ok"
    THEN [ret |-> "True", files |-> (Join(target) :> body) @@ fs_files,
          dirs |-> fs_dirs, requested |-> <<url>>]
    ELSE [ret |-> "False",
          files |-> (Join(target) :> SubSeq(body, 1, Len(body) - 1)) @@ fs_files,
          dirs |-> fs_dirs, requested |-> <<url>>]

\* lines 119-138, made being the outcome of the mkdir and name the last
\* component of dest
download_into(url, request, name, made, net_ok, io, fs_files, fs_dirs) ==
    IF ~made.ok
    THEN [ret |-> "raise", files |-> fs_files, dirs |-> fs_dirs, requested |-> <<>>]
    ELSE IF ~net_ok
    THEN [ret |-> "False", files |-> fs_files, dirs |-> made.dirs, requested |-> <<url>>]
    ELSE write_body(url, RemoteBody(request), io, step(made.at, name), fs_files, made.dirs)

\* download_resource for the components parts of dest and the URL request that
\* is sent
download_to(url, request, parts, net_ok, io, fs_files, fs_dirs) ==
    IF exists_nonempty(lookup(fs_dirs, <<>>, parts), fs_files, fs_dirs)
    THEN [ret |-> "True", files |-> fs_files, dirs |-> fs_dirs, requested |-> <<>>]
    ELSE download_into(url, request, parts[Len(parts)],
                       mkdir_parents(fs_files, fs_dirs, <<>>, SubSeq(parts, 1, Len(parts) - 1)),
                       net_ok, io, fs_files, fs_dirs)

\* download_resource(url, dest) (external_deps.py 97-138) on the files fs_files
\* and directories fs_dirs, when the network answers the request (net_ok) or
\* fails it, and the disk takes the whole write or fails it midway (io).  ret is "True" or "False", or "raise" when an exception leaves the
\* function: mkdir (line 119) is outside the try block and raises when a
\* component of the parent path is a regular file.  requested is the request
\* sent, if one was.
download_resource(url, dest, net_ok, io, fs_files, fs_dirs) ==
    download_to(url, IF startswith(url, "//") THEN "https:" \o url ELSE url,
                Parts(dest), net_ok, io, fs_files, fs_dirs)

(***************************************************************************)
(* resolve_external_dependencies (external_deps.py 141-241)                *)
(***************************************************************************)

VARIABLES
    site,              \* the Site Tree before the run: relative path -> text
    files,             \* the files on disk: location -> content
    dirs,              \* the directories on disk, the root and its ancestors apart
    pc,                \* "scan", "download", "recurse", "alias", "done", "raised"
    urls_to_download,  \* the URLs of the Scan phase the Download loop has not reached yet
    url_mapping,       \* the dict url -> local path, in insertion order
    downloaded_css,    \* the worklist of <<css local path, depth>>
    nested_urls,       \* the URLs of the stylesheet being scanned not reached yet
    depth,             \* the depth of the stylesheet being scanned
    requests,          \* history: the URLs requested from the network, in order
    failed,            \* history: the URLs download_resource returned False for
    scanned,           \* history: the <<css local path, depth>> read and scanned
    dropped,           \* history: the worklist items skipped by the depth test
    input,             \* the arguments of the text function under test (see below)
    output             \* the results of its successive applications

vars == <<site, files, dirs, pc, urls_to_download, url_mapping, downloaded_css,
          nested_urls, depth, requests, failed, scanned, dropped, input, output>>

Init ==
    /\ site \in Sites
    /\ files = site
    /\ dirs = site_dirs(site)
    /\ pc = "scan"
    /\ urls_to_download = {}
    /\ url_mapping = <<>>
    /\ downloaded_css = <<>>
    /\ nested_urls = {}
    /\ depth = 0
    /\ requests = <<>>
    /\ failed = {}
    /\ scanned = {}
    /\ dropped = {}
    /\ input = <<>>
    /\ output = <<>>

\* PurePath.suffix of a file name whose last '.' is at position dot: the text
\* from that '.', unless the name starts or ends with it
suffix_at(name, dot) == IF dot > 1 /\ dot < Len(name) THEN From(name, dot) ELSE ""

suffix_of_name(name) == suffix_at(name, rfind(name, "."))

\* filepath.suffix of a relative path
suffix(relpath) == suffix_of_name(From(relpath, rfind(relpath, "/") + 1))

\* the files load_path.glob finds for '**/*.html', '**/*.htm' and '**/*.css',
\* less those with a component named _external (lines 163-167)
ScannedFiles(tree) ==
    {f \in DOMAIN tree :
        /\ suffix(f) \in {".html", ".htm", ".css"}
        /\ \A k \in 1..Len(Parts(f)) : Parts(f)[k] # "_external"}

\* a depth test that lets one more level of nesting through
DepthExceededAtFive(d) == d > 4

\* the test of line 201
DepthExceeded(d) == d > 3

\* Phase 1 (lines 161-180): the union of the URLs of every scanned file; an
\* empty union returns {} at once
Scan ==
    /\ pc = "scan"
    /\ \E urls \in {UNION {find_external_urls(site[f]) : f \in ScannedFiles(site)}} :
          /\ urls_to_download' = urls
          /\ pc' = IF urls = {} THEN "done" ELSE "download"
    /\ UNCHANGED <<site, files, dirs, url_mapping, downloaded_css, nested_urls, depth,
                   requests, failed, scanned, dropped, input, output>>

\* where the run stands once the Download loop or a worklist item is finished
AfterStep(urls, queue, nested) ==
    IF urls # {} THEN "download"
    ELSE IF Len(queue) > 0 \/ nested # {} THEN "recurse"
    ELSE "alias"

\* Phase 2 (lines 185-192): one iteration of the loop over the set
\* urls_to_download, whose order is arbitrary
Download ==
    /\ pc = "download"
    /\ \E url \in urls_to_download, net_ok \in BOOLEAN, io \in WriteOutcomes :
       \E local_path \in {url_to_local_path(url)} :
       \E r \in {download_resource(url, local_path, net_ok, io, files, dirs)} :
       \E queue \in {IF r.ret = "True" /\ endswith(local_path, ".css")
                     THEN Append(downloaded_css, <<local_path, 1>>)
                     ELSE downloaded_css} :
            /\ files' = r.files
            /\ dirs' = r.dirs
            /\ requests' = requests \o r.requested
            /\ failed' = IF r.ret = "False" THEN failed \cup {url} ELSE failed
            /\ url_mapping' = IF r.ret = "True" THEN Put(url_mapping, url, local_path)
                              ELSE url_mapping
            /\ downloaded_css' = queue
            /\ urls_to_download' = urls_to_download \ {url}
            /\ pc' = IF r.ret = "raise" THEN "raised"
                     ELSE AfterStep(urls_to_download \ {url}, queue, {})
    /\ UNCHANGED <<site, nested_urls, depth, scanned, dropped, input, output>>

\* a worklist loop that reads the head of the worklist and leaves it there
PopCssKeepsHead ==
    /\ pc = "recurse"
    /\ nested_urls = {}
    /\ Len(downloaded_css) > 0
    /\ nested_urls' = find_external_urls(
                          files[Join(lookup(dirs, <<>>, Parts(Head(downloaded_css)[1])))])
    /\ scanned' = scanned \cup {Head(downloaded_css)}
    /\ depth' = Head(downloaded_css)[2]
    /\ UNCHANGED <<site, files, dirs, pc, urls_to_download, url_mapping, downloaded_css,
                   requests, failed, dropped, input, output>>

\* Phase 3 (lines 199-209): pop the head of the worklist; an item deeper than 3
\* or whose file is gone is skipped, any other is read and its URLs extracted.
\* Opening a directory raises, which line 221 catches.
PopCss ==
    /\ pc = "recurse"
    /\ nested_urls = {}
    /\ Len(downloaded_css) > 0
    /\ \E d \in {Head(downloaded_css)[2]}, full_path \in {Join(lookup(dirs, <<>>, Parts(Head(downloaded_css)[1])))} :
       \E read \in {~DepthExceeded(d) /\ full_path \in DOMAIN files} :
       \E nested \in {IF read THEN find_external_urls(files[full_path]) ELSE {}} :
          /\ downloaded_css' = Tail(downloaded_css)
          /\ dropped' = IF DepthExceeded(d) THEN dropped \cup {Head(downloaded_css)} ELSE dropped
          /\ scanned' = IF read THEN scanned \cup {Head(downloaded_css)} ELSE scanned
          /\ nested_urls' = nested
          /\ depth' = d
          /\ pc' = AfterStep({}, Tail(downloaded_css), nested)
    /\ UNCHANGED <<site, files, dirs, urls_to_download, url_mapping, requests, failed,
                   input, output>>

\* Phase 3 (lines 210-222): one iteration of the loop over nested_urls; an
\* exception of download_resource ends the scan of this stylesheet
NestedUrl ==
    /\ pc = "recurse"
    /\ \E url \in nested_urls, net_ok \in BOOLEAN, io \in WriteOutcomes :
       \E local_path \in {url_to_local_path(url)}, skip \in {url \in KeySet(url_mapping)} :
       \E r \in {download_resource(url, local_path, net_ok, io, files, dirs)} :
       \E queue \in {IF ~skip /\ r.ret = "True" /\ endswith(local_path, ".css")
                     THEN Append(downloaded_css, <<local_path, depth + 1>>)
                     ELSE downloaded_css},
          nested \in {IF ~skip /\ r.ret = "raise" THEN {} ELSE nested_urls \ {url}} :
            /\ (skip => net_ok)
            /\ files' = IF skip THEN files ELSE r.files
            /\ dirs' = IF skip THEN dirs ELSE r.dirs
            /\ requests' = IF skip THEN requests ELSE requests \o r.requested
            /\ failed' = IF ~skip /\ r.ret = "False" THEN failed \cup {url} ELSE failed
            /\ url_mapping' = IF ~skip /\ r.ret = "True"
                              THEN Put(url_mapping, url, local_path)
                              ELSE url_mapping
            /\ downloaded_css' = queue
            /\ nested_urls' = nested
            /\ pc' = AfterStep({}, queue, nested)
    /\ UNCHANGED <<site, urls_to_download, depth, scanned, dropped, input, output>>

\* an alias step that knows the https:// spelling only
alt_form_https_only(url) ==
    IF startswith(url, "https://") THEN "//" \o From(url, Len("https://") + 1) ELSE ""

\* the other alias spelling of url, "" when url has neither spelling (lines 230-237)
alt_form(url) ==
    IF startswith(url, "https://") THEN "//" \o From(url, Len("https://") + 1)
    ELSE IF startswith(url, "//") THEN "https:" \o url
    ELSE ""

\* the entry of extras for the i-th entry of the mapping m, whose other
\* spelling is alt: none when alt is a key already
alias_entry(m, i, alt) ==
    IF alt # "" /\ alt \notin KeySet(m) THEN <<(<<alt, m[i][2]>>)>> ELSE <<>>

\* the dict extras of lines 228-237, built over the entries m[i..] of the mapping
RECURSIVE alias_extras(_, _)
alias_extras(m, i) ==
    IF i > Len(m) THEN <<>>
    ELSE alias_entry(m, i, alt_form(m[i][1])) \o alias_extras(m, i + 1)

\* a Phase 4 that returns the dict extras in the place of the mapping
AliasExpandReturnsExtras ==
    /\ pc = "alias"
    /\ url_mapping' = alias_extras(url_mapping, 1)
    /\ pc' = "done"
    /\ UNCHANGED <<site, files, dirs, urls_to_download, downloaded_css, nested_urls,
                   depth, requests, failed, scanned, dropped, input, output>>

\* Phase 4 (lines 226-241): url_mapping.update(extras), and the mapping is returned
AliasExpand ==
    /\ pc = "alias"
    /\ url_mapping' = url_mapping \o alias_extras(url_mapping, 1)
    /\ pc' = "done"
    /\ UNCHANGED <<site, files, dirs, urls_to_download, downloaded_css, nested_urls,
                   depth, requests, failed, scanned, dropped, input, output>>

Next == Scan \/ Download \/ PopCss \/ NestedUrl \/ AliasExpand

Spec == Init /\ [][Next]_vars

(***************************************************************************)
(* Properties of resolve_external_dependencies                             *)
(***************************************************************************)

\* relpath.count("/"): the depth process_files gives a document (file_processor.py 254)
file_depth(relpath) == count(relpath, "/")

\* the stylesheets of the import chain from the fifth on (S4, S5, ...)
DeepChainUrls == {ChainUrl(k) : k \in 4..ChainLen}

\* C1: a stylesheet is read and scanned only at depth 1, 2 or 3, every worklist
\* item carries a depth of at least 1 and at most one more than a scanned one,
\* every dropped item is deeper than 3, and on the chain S0 -> ... -> S5 the
\* stylesheets S4 and S5 are never requested, never stored and never mapped.
C1_ScanDepthBounded ==
    /\ \A item \in scanned : item[2] \in 1..3
    /\ \A item \in dropped : item[2] > 3 /\ item \notin scanned
    /\ \A i \in 1..Len(downloaded_css) : downloaded_css[i][2] \in 1..4
    /\ site = SiteChain =>
          \A u \in DeepChainUrls :
             /\ \A i \in 1..Len(requests) : requests[i] # u
             /\ u \notin KeySet(url_mapping)
             /\ NormPath(url_to_local_path(u)) \notin DOMAIN files

\* a finished run over the chain: S0, S1, S2 were scanned at depths 1, 2, 3, S3
\* was fetched and its worklist item (depth 4) dropped without a scan
C1_Witness ==
    /\ pc = "done"
    /\ site = SiteChain
    /\ scanned = {<<url_to_local_path(ChainUrl(k)), k + 1>> : k \in 0..2}
    /\ dropped = {<<url_to_local_path(ChainUrl(3)), 4>>}
    /\ ChainUrl(3) \in KeySet(url_mapping)

\* C2: in the mapping a run returns, a key of the form https://x or //x has its
\* other spelling as a key too, and both map to the same local path.
C2_AliasClosed ==
    pc = "done" =>
      \A u \in KeySet(url_mapping) :
         /\ startswith(u, "https://") =>
               /\ From(u, Len("https:") + 1) \in KeySet(url_mapping)
               /\ Get(url_mapping, From(u, Len("https:") + 1)) = Get(url_mapping, u)
         /\ startswith(u, "//") =>
               /\ ("https:" \o u) \in KeySet(url_mapping)
               /\ Get(url_mapping, "https:" \o u) = Get(url_mapping, u)

\* a returned mapping in which the font is a key under both spellings although
\* only the // spelling was ever found in a document or requested
C2_Witness ==
    /\ pc = "done"
    /\ site = SiteAlias
    /\ "//h/f.woff" \in KeySet(url_mapping)
    /\ "https://h/f.woff" \in KeySet(url_mapping)
    /\ \A i \in 1..Len(requests) : requests[i] # "https://h/f.woff"

\* C29: an entry of url_mapping, once recorded, is never removed or changed,
\* and in the mapping the run returns every key u, the alias keys too, has the
\* value url_to_local_path(u), which starts with _external/.
C29_MappingAppendOnlyConsistent ==
    /\ [][/\ Len(url_mapping') >= Len(url_mapping)
          /\ \A i \in 1..Len(url_mapping) : url_mapping'[i] = url_mapping[i]]_vars
    /\ [](pc = "done" =>
             \A u \in KeySet(url_mapping) :
                /\ Get(url_mapping, u) = url_to_local_path(u)
                /\ startswith(Get(url_mapping, u), "_external/"))

\* a returned mapping with the font under the spelling that was found and under
\* its alias, both with the Local Path of the font
C29_Witness ==
    /\ pc = "done"
    /\ site = SiteAlias
    /\ {"//h/f.woff", "https://h/f.woff"} \subseteq KeySet(url_mapping)
    /\ Get(url_mapping, "//h/f.woff") = "_external/h/f.woff"
    /\ Get(url_mapping, "https://h/f.woff") = "_external/h/f.woff"
    /\ Len(url_mapping) >= 4

\* the document f of the site as process_files rewrites it with the mapping m
Rewritten(f, m) == replace_external_urls(site[f], m, file_depth(f))

\* the number of references to exactly the URL u in the text s: u as a whole
\* quoted attribute value or a whole url(...) argument
references(s, u) == count(s, "\"" \o u \o "\"") + count(s, "(" \o u \o ")")

\* C3: a URL whose fetch failed is not a key of the returned mapping, and every
\* reference to it in a document passes through replace_external_urls unchanged.
C3_FailedUrlUntouched ==
    pc = "done" =>
      \A u \in failed :
         /\ u \notin KeySet(url_mapping)
         /\ \A f \in DOMAIN site :
               references(Rewritten(f, url_mapping), u) = references(site[f], u)

\* the content of the file at path in the tree fs_files, "" when there is none
content_at(fs_files, path) == IF path \in DOMAIN fs_files THEN fs_files[path] ELSE ""

\* the URLs the Scan phase finds in the site
scan_urls == UNION {find_external_urls(site[f]) : f \in ScannedFiles(site)}

\* the URLs found in the stylesheets the run has scanned so far
nested_found ==
    UNION {find_external_urls(content_at(files, NormPath(item[1]))) : item \in scanned}

\* C13: a failing fetch does not abort the run, and the mapping the run returns
\* holds every other URL it discovered, in the Scan phase or in a scanned
\* stylesheet: a discovered URL is missing only if its own fetch failed.
C13_FailureIsolated ==
    /\ pc # "raised"
    /\ pc = "done" =>
          \A u \in scan_urls \cup nested_found : u \in KeySet(url_mapping) \/ u \in failed

\* C15: every file the run creates lies under <root>/_external/, and every file
\* of the Site Tree keeps its content.
C15_WritesOnlyUnderExternal ==
    /\ \A p \in DOMAIN files : p \notin DOMAIN site => startswith(p, "_external/")
    /\ \A p \in DOMAIN site : p \in DOMAIN files /\ files[p] = site[p]

\* the most URLs one text holds
MaxFound == 3

\* the steps a worklist item of depth d can still cost: its own, and for each
\* URL of the stylesheet one fetch and the item that fetch appends
RECURSIVE item_cost(_)
item_cost(d) == IF d > 3 THEN 1 ELSE 1 + MaxFound * (1 + item_cost(d + 1))

RECURSIVE queue_cost(_)
queue_cost(queue) ==
    IF Len(queue) = 0 THEN 0 ELSE item_cost(Head(queue)[2]) + queue_cost(Tail(queue))

\* a bound on the steps the run has left
steps_left ==
    CASE pc = "scan" -> 3 + MaxFound * (1 + item_cost(1))
      [] pc \in {"download", "recurse"} ->
            2 + Cardinality(urls_to_download) * (1 + item_cost(1))
              + queue_cost(downloaded_css)
              + Cardinality(nested_urls) * (1 + item_cost(depth + 1))
      [] pc = "alias" -> 1
      [] OTHER -> 0

\* the run has returned or raised, or one of its loops has an iteration to do
can_step ==
    /\ pc = "download" => urls_to_download # {}
    /\ pc = "recurse" => nested_urls # {} \/ Len(downloaded_css) > 0
    /\ Cardinality(urls_to_download) <= MaxFound
    /\ Cardinality(nested_urls) <= MaxFound

\* C16: every run ends with the worklist empty and the mapping returned (or with
\* a fetch that raised instead of returning): until then the run always has a
\* step to take, and every step lowers a bound on the steps left, also on
\* stylesheets that import each other in a cycle under both alias spellings.
C16_Terminates == [](can_step) /\ [][steps_left' < steps_left]_vars

\* a finished run over the import cycle: the stylesheet a.css was scanned at
\* depth 1 and, reached again under its other spelling, at depth 3
C16_Witness ==
    /\ pc = "done"
    /\ site = SiteCycle
    /\ {<<"_external/y/a.css", 1>>, <<"_external/y/b.css", 2>>, <<"_external/y/a.css", 3>>}
          \subseteq scanned
    /\ Len(downloaded_css) = 0

\* C17: within one run no URL string is requested from the network twice.
C17_AtMostOneRequest ==
    \A i, j \in 1..Len(requests) : i # j => requests[i] # requests[j]

(***************************************************************************)
(* The text functions on their own.  Each specification below draws the    *)
(* arguments of one function into input, and its actions apply the         *)
(* function and append the result to output; the variables of the resolver *)
(* stay as they are before a run.                                          *)
(***************************************************************************)

NoRun ==
    /\ site = <<>>
    /\ files = <<>>
    /\ dirs = {}
    /\ pc = "idle"
    /\ urls_to_download = {}
    /\ url_mapping = <<>>
    /\ downloaded_css = <<>>
    /\ nested_urls = {}
    /\ depth = 0
    /\ requests = <<>>
    /\ failed = {}
    /\ scanned = {}
    /\ dropped = {}

resolver_vars == <<site, files, dirs, pc, urls_to_download, url_mapping, downloaded_css,
                   nested_urls, depth, requests, failed, scanned, dropped>>

\* the sequences over S of length at most n
SeqsUpTo(S, n) == UNION {[1..k -> S] : k \in 0..n}

\* the text made of the fragments of the sequence fs
RECURSIVE Concat(_)
Concat(fs) == IF Len(fs) = 0 THEN "" ELSE Head(fs) \o Concat(Tail(fs))

(***************************************************************************)
(* url_to_local_path on pairs of URLs                                      *)
(***************************************************************************)

SchemePool == {"https://", "//"}

HostPool == {"h", "k"}

PathPool == {"", "/", "/a", "/a.css", "/a@b", "/a_b", "/a%40b", "/d/", "/d/index"}

QueryPool == {"", "?v=1", "?v=2", "?v=10599", "?v=72686"}

\* external URLs as the patterns of find_external_urls capture them
UrlPool ==
    {sch \o h \o p \o q : sch \in SchemePool, h \in HostPool, p \in PathPool, q \in QueryPool}

InitPath ==
    /\ NoRun
    /\ input \in UrlPool \X UrlPool
    /\ output = <<>>

\* both URLs of the pair are mapped
MapUrls ==
    /\ output = <<>>
    /\ output' = <<url_to_local_path(input[1]), url_to_local_path(input[2])>>
    /\ UNCHANGED <<resolver_vars, input>>

NextPath == MapUrls

SpecPath == InitPath /\ [][NextPath]_vars

\* the host, URL path and query string of an external URL
parts_of(url) == urlparse(IF startswith(url, "//") THEN "https:" \o url ELSE url)

host_of(url) == parts_of(url).netloc

path_of(url) == parts_of(url).path

query_of(url) == parts_of(url).query

\* C8 (as stated): two external URLs that differ in host, in URL path or in
\* query string never map to the same Local Path.
C8_InjectiveInHostPathQuery ==
    (/\ Len(output) = 2
     /\ \/ host_of(input[1]) # host_of(input[2])
        \/ path_of(input[1]) # path_of(input[2])
        \/ query_of(input[1]) # query_of(input[2]))
    => output[1] # output[2]

\* C8 (amended): two external URLs that differ in host never map to the same
\* Local Path; URLs of one host that differ in path or query string can.
C8_InjectiveInHost ==
    Len(output) = 2 =>
      (host_of(input[1]) # host_of(input[2]) => output[1] # output[2])

\* the same path and query on two hosts, mapped to two Local Paths
C8_Witness ==
    /\ input = <<"https://h/a.css?v=1", "//k/a.css?v=1">>
    /\ output = <<"_external/h/a_q_38609a28.css", "_external/k/a_q_38609a28.css">>

\* what a query string contributes to the name: 8 hex digits of its MD5 digest
query_tag(query) == IF query = "" THEN "" ELSE md5_hex8(query)

\* the Local Path local ends with the _q_<hash> of query, then the extension of
\* the decoded path or a synthetic .css
hash_before_extension(local, path, query) ==
    endswith(local, "_q_" \o md5_hex8(query)
                    \o (IF splitext(str_replace(unquote(path), "@", "_"))[2] = "" THEN ".css"
                        ELSE splitext(str_replace(unquote(path), "@", "_"))[2]))

\* the suffix of every URL of the pair that has a query string is placed as C9 says
C9_SuffixPlaced ==
    \A i \in 1..2 :
       query_of(input[i]) # "" =>
          hash_before_extension(output[i], path_of(input[i]), query_of(input[i]))

\* C9 (as stated): two URLs with the same host and path but different query
\* strings get different Local Paths; the _q_<hash> suffix is a function of
\* the query string alone, and it goes before the extension of the path, or
\* before a synthetic .css when the path has none.
C9_DistinctQueriesDistinctPaths ==
    Len(output) = 2 =>
      /\ (/\ host_of(input[1]) = host_of(input[2])
          /\ path_of(input[1]) = path_of(input[2])
          /\ query_of(input[1]) # query_of(input[2])) => output[1] # output[2]
      /\ C9_SuffixPlaced

\* C9 (amended): two URLs with the same host and path get different Local
\* Paths when exactly one has a query string, or when both have one and the
\* first 8 hex digits of the MD5 digests of the two query strings differ; the
\* _q_<hash> suffix is a function of the query string alone, and it goes
\* before the extension of the path, or before a synthetic .css.
C9_DistinctHashesDistinctPaths ==
    Len(output) = 2 =>
      /\ (/\ host_of(input[1]) = host_of(input[2])
          /\ path_of(input[1]) = path_of(input[2])
          /\ query_tag(query_of(input[1])) # query_tag(query_of(input[2])))
         => output[1] # output[2]
      /\ C9_SuffixPlaced

\* one path with two query strings, with and without an extension
C9_Witness ==
    \/ /\ input = <<"https://h/a.css?v=1", "https://h/a.css?v=2">>
       /\ output = <<"_external/h/a_q_38609a28.css", "_external/h/a_q_5e1f15b6.css">>
    \/ /\ input = <<"https://h/a?v=1", "https://h/a?v=2">>
       /\ output = <<"_external/h/a_q_38609a28.css", "_external/h/a_q_5e1f15b6.css">>

\* C27: a URL whose path is empty or ends in "/" gets a Local Path whose last
\* component is index, followed by the _q_<hash> suffix and the extension when
\* the URL has a query string and by nothing otherwise.
C27_DirectoryLikeGetsIndex ==
    \A i \in 1..Len(output) :
       (path_of(input[i]) = "" \/ endswith(path_of(input[i]), "/")) =>
          endswith(output[i],
                   IF query_of(input[i]) = "" THEN "/index"
                   ELSE "/index_q_" \o md5_hex8(query_of(input[i])) \o ".css")

(***************************************************************************)
(* replace_external_urls with the mappings a run returns                   *)
(***************************************************************************)

\* the most fragments a content is made of
MaxFrags == 2

\* the most URLs a run finds
MaxUrls == 2

\* the deepest document
MaxDepth == 2

TextFrags == {"https://h/x", "//h/x", "http://h/x", "https://k/", "https://h/a//h/x",
              "https://h/x?v=1", "url(", ")"}

FoundPool == {"https://h/x", "//h/x", "https://h/x?v=1", "https://h/a//h/x",
              "https://k/_external/h/x"}

\* the orders in which a run can come to fetch the URLs it finds
FoundOrders ==
    {o \in SeqsUpTo(FoundPool, MaxUrls) :
        Len(o) > 0 /\ \A i, j \in 1..Len(o) : i # j => o[i] # o[j]}

\* url_mapping after every URL of found was fetched, in this order (lines 185-192)
fetched_all(found) == [i \in 1..Len(found) |-> <<found[i], url_to_local_path(found[i])>>]

\* the mapping the run returns then (lines 226-241)
returned_mapping(m) == m \o alias_extras(m, 1)

InitRewrite ==
    /\ NoRun
    /\ input \in {[content |-> Concat(fs), url_mapping |-> returned_mapping(fetched_all(o)),
                   depth |-> d] :
                     fs \in SeqsUpTo(TextFrags, MaxFrags), o \in FoundOrders, d \in 0..MaxDepth}
    /\ output = <<>>

\* the rewrite of the content
Rewrite ==
    /\ output = <<>>
    /\ output' = <<replace_external_urls(input.content, input.url_mapping, input.depth)>>
    /\ UNCHANGED <<resolver_vars, input>>

\* the rewrite of the rewritten content
RewriteAgain ==
    /\ Len(output) = 1
    /\ output' = Append(output,
                        replace_external_urls(output[1], input.url_mapping, input.depth))
    /\ UNCHANGED <<resolver_vars, input>>

NextRewrite == Rewrite \/ RewriteAgain

SpecRewrite == InitRewrite /\ [][NextRewrite]_vars

\* C4: rewriting the rewritten content changes nothing.
C4_RewriteIdempotent == Len(output) = 2 => output[2] = output[1]

\* the longest key of the mapping m that occurs in s at position i, "" when
\* none does
longest_key_at(s, i, m) ==
    IF \A u \in KeySet(m) : ~StartsWithAt(s, u, i) THEN ""
    ELSE CHOOSE u \in KeySet(m) :
            /\ StartsWithAt(s, u, i)
            /\ \A w \in KeySet(m) : StartsWithAt(s, w, i) => Len(w) <= Len(u)

\* s from position i on with every occurrence of a key of m, found from left to
\* right and the longest first, replaced by prefix and its local path, and the
\* text in between as it is; u is the key at position i
RECURSIVE occurrences_replaced(_, _, _, _, _)
occurrences_replaced(s, i, m, prefix, u) ==
    IF i > Len(s) THEN ""
    ELSE IF u = ""
    THEN Ch(s, i) \o occurrences_replaced(s, i + 1, m, prefix, longest_key_at(s, i + 1, m))
    ELSE prefix \o Get(m, u)
         \o occurrences_replaced(s, i + Len(u), m, prefix, longest_key_at(s, i + Len(u), m))

\* C10: in the output every occurrence of a mapped URL u in the content is
\* replaced by "../" x depth and mapping[u], and the rest of the text is left as
\* it was.
C10_OccurrencesReplaced ==
    Len(output) >= 1 =>
      output[1] = occurrences_replaced(input.content, 1, input.url_mapping,
                                       dotdot(input.depth),
                                       longest_key_at(input.content, 1, input.url_mapping))

\* C21: a content that is one occurrence of a mapped URL l comes out as
\* "../" x depth and l's local path, whatever shorter mapped URLs are a prefix
\* or a part of l: no replacement for a shorter URL rewrites a part of l or of
\* the local path put in its place.
C21_LongestReplacedWhole ==
    (Len(output) >= 1 /\ input.content \in KeySet(input.url_mapping))
    => output[1] = dotdot(input.depth) \o Get(input.url_mapping, input.content)

(***************************************************************************)
(* process_html_content on a page of a Site Tree                           *)
(***************************************************************************)

HtmlFrags == {"<a href=\"/about/\">", "<a href=\"/nope/\">", "<a href=\"/about\">",
              "<img src=\"/i.png\">", "<img src=\"//cdn/x.png\">", "<a href=\"docs/\">",
              "<p style=\"background:url(/b.png)\">"}

\* the page p.html d directories below the root
RECURSIVE PageAt(_)
PageAt(d) == IF d = 0 THEN "p.html" ELSE "s/" \o PageAt(d - 1)

Pages == {PageAt(d) : d \in 0..MaxDepth}

\* the files of the Site Tree: the pages, with and without the index of /about/
\* and of the directory docs of each page
Trees == {Pages,
          Pages \cup {"about/index.html"},
          Pages \cup {"about/index.html", "docs/index.html", "s/docs/index.html"}}

InitHtml ==
    /\ NoRun
    /\ input \in {[data |-> Concat(fs), relpath |-> page, tree |-> t] :
                     fs \in SeqsUpTo(HtmlFrags, MaxFrags), page \in Pages, t \in Trees}
    /\ output = <<>>

\* process_files on the page (file_processor.py 253-292): the first pass, with
\* no warning collected yet
ProcessHtml ==
    /\ output = <<>>
    /\ output' = <<process_html_content(input.data, file_depth(input.relpath), input.tree,
                                        <<>>, input.relpath)>>
    /\ UNCHANGED <<resolver_vars, input>>

\* process_html_content applied to its own output
ProcessHtmlAgain ==
    /\ Len(output) = 1
    /\ output' = Append(output,
                        process_html_content(output[1][1], file_depth(input.relpath),
                                             input.tree, output[1][2], input.relpath))
    /\ UNCHANGED <<resolver_vars, input>>

NextHtml == ProcessHtml \/ ProcessHtmlAgain

SpecHtml == InitHtml /\ [][NextHtml]_vars

\* s contains sub
contains(s, sub) == find(s, sub, 1) > 0

\* C5: process_html_content applied to its own output gives the same text.
C5_HtmlRewriteIdempotent == Len(output) = 2 => output[2][1] = output[1][1]

\* C6: a page at depth d with href="/about/", in a tree that has
\* about/index.html, comes out with href="<../ x d>about/index.html".
C6_IndexLinkCompleted ==
    (/\ Len(output) >= 1
     /\ contains(input.data, "href=\"/about/\"")
     /\ "about/index.html" \in input.tree)
    => contains(output[1][1],
                "href=\"" \o dotdot(file_depth(input.relpath)) \o "about/index.html\"")

\* the warnings of the list lst that are about the link /nope/
about_nope(lst) == {i \in 1..Len(lst) : contains(lst[i], "nope/")}

\* C7: a page at depth d with href="/nope/", in a tree without nope/index.html,
\* comes out with href="<../ x d>nope/" and nothing added, and the list of
\* warnings gains exactly one entry for the link however often it occurs.
C7_MissingIndexKept ==
    (Len(output) >= 1 /\ contains(input.data, "href=\"/nope/\""))
    => /\ contains(output[1][1],
                   "href=\"" \o dotdot(file_depth(input.relpath)) \o "nope/\"")
       /\ Cardinality(about_nope(output[1][2])) = 1

\* C26: a warning is collected only for a link that ends in a separator and
\* whose directory has no index.html: no warning is about the link /about/ when
\* the tree has about/index.html, no warning comes from a page without such a
\* link, and no two warnings of the list are equal.
C26_WarningOnlyForMissingIndex ==
    \A k \in 1..Len(output) :
        /\ \A i \in 1..Len(output[k][2]) :
              /\ "about/index.html" \in input.tree => ~contains(output[k][2][i], "about/")
              /\ contains(input.data, "/\"")
        /\ \A i, j \in 1..Len(output[k][2]) : i # j => output[k][2][i] # output[k][2][j]

(***************************************************************************)
(* download_resource called twice in a row on a tree                       *)
(***************************************************************************)

FetchUrls == {"https://h/a", "https://h/a/b.css", "//h/a/b.css", "https://h/e.css",
              "https://h/../../x.png", "https://h/a/.."}

\* the files on disk before the first call
FetchTrees ==
    {<<>>,
     ("_external/h/a" :> "DATA"),
     ("_external/h/a/b.css" :> "OLD"),
     ("_external/h/a/b.css" :> ""),
     ("_external/h/e.css" :> "OLD"),
     ("x.png" :> "LOCAL")}

InitFetch ==
    /\ NoRun
    /\ input \in {[url |-> u, files |-> t, dirs |-> site_dirs(t), net_ok |-> n, io |-> w] :
                     u \in FetchUrls, t \in FetchTrees, n \in BOOLEAN \X BOOLEAN,
                     w \in WriteOutcomes \X WriteOutcomes}
    /\ output = <<>>

\* download_resource(url, load_path / url_to_local_path(url)), as lines 186-188 call it
Fetch ==
    /\ output = <<>>
    /\ output' = <<download_resource(input.url, url_to_local_path(input.url), input.net_ok[1],
                                     input.io[1], input.files, input.dirs)>>
    /\ UNCHANGED <<resolver_vars, input>>

\* the same call again, on what the first call left on disk
FetchAgain ==
    /\ Len(output) = 1
    /\ output[1].ret # "raise"
    /\ output' = Append(output,
                        download_resource(input.url, url_to_local_path(input.url),
                                          input.net_ok[2], input.io[2], output[1].files,
                                          output[1].dirs))
    /\ UNCHANGED <<resolver_vars, input>>

NextFetch == Fetch \/ FetchAgain

SpecFetch == InitFetch /\ [][NextFetch]_vars

\* C12: download_resource never lets an exception out: every call returns True
\* or False, whatever the network and the file system do.
C12_NeverRaises == \A i \in 1..Len(output) : output[i].ret \in {"True", "False"}

\* the destination of the call as a location in the tree, for a URL whose path
\* has no ".." segment
plain_dest(url) == NormPath(url_to_local_path(url))

\* C23: after a call the destination is missing, or empty, or holds the whole
\* body of the response or what it held before the call: a write that fails
\* leaves no part of a body that a later call takes for a finished download.
C23_WritesWholeBody ==
    (/\ Len(output) >= 1
     /\ ".." \notin {Parts(input.url)[k] : k \in 1..Len(Parts(input.url))})
    => content_at(output[1].files, plain_dest(input.url))
           \in {"", content_at(input.files, plain_dest(input.url)),
                RemoteBody(IF startswith(input.url, "//") THEN "https:" \o input.url
                           ELSE input.url)}

\* C14: a call that finds the destination in place and non-empty returns True,
\* sends no request and leaves the destination as it is; a call that follows a
\* successful download of a non-empty body transfers nothing again.
C14_SkipIfExists ==
    /\ (/\ Len(output) >= 1
        /\ ".." \notin {Parts(input.url)[k] : k \in 1..Len(Parts(input.url))}
        /\ content_at(input.files, plain_dest(input.url)) # "")
       => /\ output[1].ret = "True"
          /\ output[1].requested = <<>>
          /\ output[1].files = input.files
    /\ (/\ Len(output) = 2
        /\ output[1].ret = "True"
        /\ output[1].requested # <<>>
        /\ RemoteBody(IF startswith(input.url, "//") THEN "https:" \o input.url
                      ELSE input.url) # "")
       => /\ output[2].ret = "True"
          /\ output[2].requested = <<>>
          /\ output[2].files = output[1].files

\* a stylesheet is downloaded by the first call and found in place by the second
C14_Witness ==
    /\ Len(output) = 2
    /\ input.url = "//h/a/b.css"
    /\ input.files = <<>>
    /\ output[1].requested = <<"//h/a/b.css">>
    /\ output[1].files = ("_external/h/a/b.css" :> "DATA")
    /\ output[2] = [output[1] EXCEPT !.requested = <<>>]

(***************************************************************************)
(* process_files (file_processor.py 230-314): the loop over all_files. The *)
(* items go to the creator of libzim; what the file system and the creator *)
(* raise for a file is an input of the run.                                *)
(***************************************************************************)

\* mime_types.py 7-55
MIME_TYPES ==
    "bin" :> "application/octet-stream" @@ "bmp" :> "image/bmp" @@
    "bz" :> "application/x-bzip" @@ "bz2" :> "application/x-bzip2" @@
    "pdf" :> "application/pdf" @@ "css" :> "text/css" @@ "csv" :> "text/csv" @@
    "doc" :> "application/msword" @@
    "docx" :> "application/vnd.openxmlformats-officedocument.wordprocessingml.document" @@
    "epub" :> "application/epub+zip" @@ "gif" :> "image/gif" @@ "ico" :> "image/x-icon" @@
    "ics" :> "text/calendar" @@ "jar" :> "application/java-archive" @@
    "js" :> "application/javascript" @@ "json" :> "application/json" @@
    "mid" :> "audio/midi" @@ "midi" :> "audio/midi" @@ "mpeg" :> "video/mpeg" @@
    "mp4" :> "video/mp4" @@ "odp" :> "application/vnd.oasis.opendocument.presentation" @@
    "ods" :> "application/vnd.oasis.opendocument.spreadsheet" @@
    "odt" :> "application/vnd.oasis.opendocument.text" @@ "otf" :> "font/otf" @@
    "ppt" :> "application/vnd.ms-powerpoint" @@
    "pptx" :> "application/vnd.openxmlformats-officedocument.presentationml.presentation" @@
    "rar" :> "application/x-rar-compressed" @@ "scss" :> "text/x-scss" @@
    "sh" :> "application/x-sh" @@ "svg" :> "image/svg+xml" @@ "png" :> "image/png" @@
    "jpg" :> "image/jpeg" @@ "jpeg" :> "image/jpeg" @@ "xml" :> "application/xml" @@
    "tif" :> "image/tiff" @@ "txt" :> "text/plain" @@ "ts" :> "application/typescript" @@
    "ttf" :> "font/ttf" @@ "woff" :> "font/woff" @@ "woff2" :> "font/woff2" @@
    "eot" :> "application/vnd.ms-fontobject" @@ "wav" :> "audio/x-wav" @@
    "webp" :> "image/webp" @@ "xls" :> "application/vnd.ms-excel" @@
    "xlsx" :> "application/vnd.openxmlformats-officedocument.spreadsheetml.sheet" @@
    "zip" :> "application/zip"

Uppercase == "ABCDEFGHIJKLMNOPQRSTUVWXYZ"

Lowercase == "abcdefghijklmnopqrstuvwxyz"

\* the lower case of the character c, which is the k-th capital (k = 0: not one)
lower_char(c, k) == IF k = 0 THEN c ELSE Ch(Lowercase, k)

\* s.lower()
RECURSIVE lower_from(_, _)
lower_from(s, i) ==
    IF i > Len(s) THEN ""
    ELSE lower_char(Ch(s, i), find(Uppercase, Ch(s, i), 1)) \o lower_from(s, i + 1)

lower(s) == lower_from(s, 1)

\* s.lstrip(".")
lstrip_dot(s) == From(s, MinOr({j \in 1..Len(s) : Ch(s, j) # "."}, Len(s) + 1))

\* filepath.suffix.lstrip(".").lower() (line 256)
file_ext(relpath) == lower(lstrip_dot(suffix(relpath)))

\* the file name of a relative path
file_name(relpath) == From(relpath, rfind(relpath, "/") + 1)

\* filepath.stem (line 255)
stem(relpath) ==
    SubSeq(file_name(relpath), 1, Len(file_name(relpath)) - Len(suffix(relpath)))

\* relpath.rsplit(".", 1)[-1] (line 299)
rsplit_last(relpath) == From(relpath, rfind(relpath, ".") + 1)

\* MyItem(title, path, content, fpath, mimetype) (zim_item.py 11-17); fpath is
\* <<>> for None and <<the path>> otherwise
MyItem(title, path, content, fpath, mimetype) ==
    [title |-> title, path |-> path, content |-> content, fpath |-> fpath,
     mimetype |-> mimetype]

\* optimize_image (image_optimizer.py 13-58): <<>> for None, or <<optimized
\* data, original size, new size>> for the files Pillow encodes smaller
optimize_image(tree, relpath, optimizable) ==
    IF relpath \in optimizable /\ Len(tree[relpath]) > Len("opt")
    THEN <<"opt", Len(tree[relpath]), Len("opt")>>
    ELSE <<>>

\* what a file makes raise: nothing, open() (lines 278, 289) or creator.add_item
\* (line 302), with the exception's class
NoFault == <<"none", "">>

\* the entry an except clause appends to lst_errors (lines 304-312)
error_entry(relpath, exception) ==
    CASE exception = "PermissionError" -> relpath \o " (Permission denied)"
      [] exception = "UnicodeDecodeError" -> relpath \o " (Encoding error)"
      [] OTHER -> relpath \o " (" \o exception \o ")"

\* the state of the loop before its first iteration (lines 245-251); raised
\* lists the exceptions raised so far, calls the calls of creator.add_item
LoopStart ==
    [i |-> 0, calls |-> <<>>, raised |-> <<>>, lst_errors |-> <<>>, lst_unknown |-> <<>>,
     lst_missing_index |-> <<>>, images_optimized |-> 0, bytes_saved |-> 0,
     returned |-> <<>>]

\* an exception of the loop body reaches the except clauses (lines 304-312)
caught(st, relpath, exception) ==
    [st EXCEPT !.i = @ + 1,
               !.raised = Append(@, <<relpath, exception>>),
               !.lst_errors = Append(@, error_entry(relpath, exception))]

\* creator.add_item(item) (line 302) and the end of the iteration
add_item(st, relpath, item, fault) ==
    IF fault[1] = "add"
    THEN caught([st EXCEPT !.calls = Append(@, [item |-> item, returned |-> FALSE])],
                relpath, fault[2])
    ELSE [st EXCEPT !.i = @ + 1, !.calls = Append(@, [item |-> item, returned |-> TRUE])]

\* lines 266-275: the image, optimized (result # <<>>) or as it is
image_item(st, relpath, mime, result, fault) ==
    IF result # <<>>
    THEN add_item([st EXCEPT !.images_optimized = @ + 1,
                             !.bytes_saved = @ + (result[2] - result[3])],
                  relpath, MyItem(stem(relpath), relpath, result[1], <<>>, mime), fault)
    ELSE add_item(st, relpath, MyItem(stem(relpath), relpath, "", <<relpath>>, mime), fault)

\* lines 276-284: the stylesheet with its external URLs rewritten, or the
\* file as it is when reading it raises
css_item(st, relpath, mime, tree, mapping, fault) ==
    IF fault[1] = "open"
    THEN add_item([st EXCEPT !.raised = Append(@, <<relpath, fault[2]>>)],
                  relpath, MyItem(stem(relpath), relpath, "", <<relpath>>, mime), fault)
    ELSE add_item(st, relpath,
                  MyItem(stem(relpath), relpath,
                         replace_external_urls(tree[relpath], mapping, file_depth(relpath)),
                         <<>>, mime),
                  fault)

\* lines 263-286: a file whose extension has a MIME type
mime_file(st, relpath, inp) ==
    IF inp.optimize_images /\ file_ext(relpath) \in {"jpg", "jpeg", "png"}
    THEN image_item(st, relpath, MIME_TYPES[file_ext(relpath)],
                    optimize_image(inp.tree, relpath, inp.optimizable), inp.faults[relpath])
    ELSE IF inp.url_mapping # <<>> /\ file_ext(relpath) = "css"
    THEN css_item(st, relpath, MIME_TYPES[file_ext(relpath)], inp.tree, inp.url_mapping,
                  inp.faults[relpath])
    ELSE add_item(st, relpath,
                  MyItem(stem(relpath), relpath, "", <<relpath>>,
                         MIME_TYPES[file_ext(relpath)]),
                  inp.faults[relpath])

\* lines 292-295: the processed page, processed == <<data, lst_missing_index>>
html_item(st, relpath, processed, mapping, fault) ==
    add_item([st EXCEPT !.lst_missing_index = processed[2]], relpath,
             MyItem(stem(relpath), relpath,
                    IF mapping # <<>>
                    THEN replace_external_urls(processed[1], mapping, file_depth(relpath))
                    ELSE processed[1],
                    <<>>, "text/html"),
             fault)

\* lines 288-295: an HTML page
html_file(st, relpath, inp) ==
    IF inp.faults[relpath][1] = "open"
    THEN caught(st, relpath, inp.faults[relpath][2])
    ELSE html_item(st, relpath,
                   process_html_content(inp.tree[relpath], file_depth(relpath),
                                        DOMAIN inp.tree, st.lst_missing_index, relpath),
                   inp.url_mapping, inp.faults[relpath])

\* lines 297-300: a file of no known type
unknown_file(st, relpath, inp) ==
    add_item([st EXCEPT !.lst_unknown = Append(@, rsplit_last(relpath))], relpath,
             MyItem(stem(relpath), relpath, "", <<relpath>>, "text/html"),
             inp.faults[relpath])

\* the documents of the pages: one reference to a resolved resource each
RefFrags == {"<img src=\"https://h/x.png\">", "<img src=\"//h/x.png\">",
             "<link rel=\"stylesheet\" href=\"https://h/x.png\">",
             "<link href=\"//h/x.png\">"}

\* the Site Tree: the pages with the document doc, a stylesheet, an image, and
\* two files of no known type
FileTree(doc) ==
    [f \in Pages |-> doc] @@ ("s.css" :> "@import url(//h/x.png);" @@ "i.PNG" :> "PNGDATA"
                              @@ "x.dat" :> "DAT" @@ "N.HTML" :> "<p>")

\* at most this many files of a run raise
MaxFaults == 2

FaultPool == {NoFault, <<"open", "PermissionError">>, <<"add", "RuntimeError">>,
              <<"add", "UnicodeDecodeError">>}

\* all_files: the files of the tree, in the order the loop takes them (line 252)
AllFiles == <<"N.HTML", "i.PNG">> \o [d \in 1..(MaxDepth + 1) |-> PageAt(d - 1)]
            \o <<"s.css", "x.dat">>

FileNames == {AllFiles[k] : k \in 1..Len(AllFiles)}

InitFiles ==
    /\ NoRun
    /\ input \in {[tree |-> FileTree(doc), all_files |-> AllFiles,
                   url_mapping |-> m, optimize_images |-> o, optimizable |-> {"i.PNG"},
                   faults |-> fs] :
                     doc \in RefFrags,
                     m \in {<<>>, returned_mapping(fetched_all(<<"https://h/x.png">>))},
                     o \in BOOLEAN,
                     fs \in {g \in [FileNames -> FaultPool] :
                                Cardinality({f \in DOMAIN g : g[f] # NoFault}) <= MaxFaults}}
    /\ output = LoopStart

\* the file of the next iteration
next_file == input.all_files[output.i + 1]

\* the loop has a file left (line 252)
in_loop == output.returned = <<>> /\ output.i < Len(input.all_files)

\* an iteration for a file with a MIME type (lines 263-286, 302-312)
MimeFile ==
    /\ in_loop
    /\ file_ext(next_file) \in DOMAIN MIME_TYPES
    /\ output' = mime_file(output, next_file, input)
    /\ UNCHANGED <<resolver_vars, input>>

\* an iteration for an HTML page (lines 288-295, 302-312)
HtmlFile ==
    /\ in_loop
    /\ file_ext(next_file) \notin DOMAIN MIME_TYPES
    /\ endswith(next_file, ".html") \/ endswith(next_file, ".htm")
    /\ output' = html_file(output, next_file, input)
    /\ UNCHANGED <<resolver_vars, input>>

\* an iteration for any other file (lines 297-312)
UnknownFile ==
    /\ in_loop
    /\ file_ext(next_file) \notin DOMAIN MIME_TYPES
    /\ ~(endswith(next_file, ".html") \/ endswith(next_file, ".htm"))
    /\ output' = unknown_file(output, next_file, input)
    /\ UNCHANGED <<resolver_vars, input>>

\* line 314
ReturnCounts ==
    /\ output.returned = <<>>
    /\ output.i = Len(input.all_files)
    /\ output' = [output EXCEPT !.returned = <<output.images_optimized, output.bytes_saved>>]
    /\ UNCHANGED <<resolver_vars, input>>

NextFiles == MimeFile \/ HtmlFile \/ UnknownFile \/ ReturnCounts

SpecFiles == InitFiles /\ [][NextFiles]_vars

\* the calls of creator.add_item for the file that returned
added(relpath) ==
    {k \in 1..Len(output.calls) :
        output.calls[k].item.path = relpath /\ output.calls[k].returned}

\* the entries of lst_errors that name the file
error_entries(relpath) ==
    {k \in 1..Len(output.lst_errors) : startswith(output.lst_errors[k], relpath \o " (")}

\* the exceptions raised while the file was processed
raised_for(relpath) == {k \in 1..Len(output.raised) : output.raised[k][1] = relpath}

\* C18: when the loop is over, a file that raised while it was read, rewritten
\* or added has exactly one entry in lst_errors and no item in the archive, and
\* every file of all_files has exactly one of the two: one item added, or one
\* entry in lst_errors.
C18_ErrorsIsolated ==
    output.returned # <<>> =>
        \A k \in 1..Len(input.all_files) :
            /\ raised_for(input.all_files[k]) # {}
               => /\ Cardinality(error_entries(input.all_files[k])) = 1
                  /\ added(input.all_files[k]) = {}
            /\ Cardinality(added(input.all_files[k]))
               + Cardinality(error_entries(input.all_files[k])) = 1

\* the item added for the file
item_of(relpath) == output.calls[CHOOSE k \in added(relpath) : TRUE].item

\* C19: a page at depth d that refers to the resolved https://h/x.png, under
\* either spelling, in src="..." or in <link href="...">, is added with that
\* attribute's value being "../" x d followed by _external/h/x.png.
C19_ExternalRefRewritten ==
    (output.returned # <<>> /\ input.url_mapping # <<>>) =>
        \A p \in Pages : \A a \in {"src=\"", "href=\""} : \A u \in {"https://h/x.png", "//h/x.png"} :
            (added(p) # {} /\ contains(input.tree[p], a \o u \o "\""))
            => contains(item_of(p).content,
                        a \o dotdot(file_depth(p)) \o "_external/h/x.png\"")

(***************************************************************************)
(* find_referenced_assets and cleanup_unreferenced (file_processor.py      *)
(* 57-170). The root is at /srv/site; paths are resolved as pathlib does   *)
(* in a tree without symbolic links.                                       *)
(***************************************************************************)

\* s[i-1:i-1+n], "" when the text is shorter
Window(s, i, n) == IF i >= 1 /\ i + n - 1 <= Len(s) THEN SubSeq(s, i, i + n - 1) ELSE ""

\* the last position of the run of characters outside stop that starts at j
\* (j - 1: the run is empty)
run_end(s, j, stop) == find_any(s, stop, j) - 1

\* a match: group(0), group(1) and the position e of its last character (0: no match)
NoRef == [g0 |-> "", g |-> "", e |-> 0]

\* a match from position i whose group 1 is the run from j to e, followed by a
\* closing quote when closing = 1
ref_run(s, i, j, e, closing) ==
    IF e >= j /\ (closing = 0 \/ Ch(s, e + 1) \in Quotes)
    THEN [g0 |-> SubSeq(s, i, e + closing), g |-> SubSeq(s, j, e), e |-> e + closing]
    ELSE NoRef

AttrNames == {"href", "src", "poster", "data-src"}

\* the length of the attribute name that stands at position i, in any case; 0: none
attr_name_len(s, i) ==
    MaxOr0({Len(a) : a \in {b \in AttrNames : /\ Ch(s, i + Len(b)) = "="
                                                /\ lower(Window(s, i, Len(b))) = b}})

attr_ref_at(s, i, n) ==
    IF n > 0 /\ Ch(s, i + n) = "=" /\ Ch(s, i + n + 1) \in Quotes
    THEN ref_run(s, i, i + n + 2, run_end(s, i + n + 2, Quotes \cup {"#", "?"}), 0)
    ELSE NoRef

\* (?:href|src|poster|data-src)=["']([^"'#?]+) at position i (line 68)
match_attr_ref(s, i) == attr_ref_at(s, i, attr_name_len(s, i))

\* srcset=["']([^"']+)["'] at position i (line 69)
match_srcset(s, i) ==
    IF Ch(s, i + 6) = "=" /\ Ch(s, i + 7) \in Quotes /\ lower(Window(s, i, 7)) = "srcset="
    THEN ref_run(s, i, i + 8, run_end(s, i + 8, Quotes), 1)
    ELSE NoRef

url_ref_at(s, i, j) ==
    ref_run(s, i, j, run_end(s, j, Quotes \cup Whitespace \cup {")", "#", "?"}), 0)

\* url\(["']?([^"')\s#?]+) at position i (lines 70, 73)
match_url_ref(s, i) ==
    IF Ch(s, i + 3) = "(" /\ lower(Window(s, i, 4)) = "url("
    THEN url_ref_at(s, i, IF Ch(s, i + 4) \in Quotes THEN i + 5 ELSE i + 4)
    ELSE NoRef

ref_match_at(pattern, s, i) ==
    CASE pattern = "attr" -> match_attr_ref(s, i)
      [] pattern = "srcset" -> match_srcset(s, i)
      [] pattern = "url" -> match_url_ref(s, i)

\* the leftmost position >= i where the pattern matches, 0 when there is none
ref_next(pattern, s, i) == MinOr({k \in i..Len(s) : ref_match_at(pattern, s, k).e > 0}, 0)

\* the matches of pattern.finditer(s) from position j on (0: none left), m
\* being the match at j (lines 93-94)
RECURSIVE ref_finditer_from(_, _, _, _)
ref_finditer_from(pattern, s, j, m) ==
    IF j = 0 THEN {}
    ELSE {m} \cup ref_finditer_from(pattern, s, ref_next(pattern, s, m.e + 1),
                                    ref_match_at(pattern, s, ref_next(pattern, s, m.e + 1)))

ref_finditer(pattern, s) ==
    ref_finditer_from(pattern, s, ref_next(pattern, s, 1),
                      ref_match_at(pattern, s, ref_next(pattern, s, 1)))

\* s.strip()
strip(s) ==
    SubSeq(s, MinOr({j \in 1..Len(s) : Ch(s, j) \notin Whitespace}, Len(s) + 1),
           MaxOr0({j \in 1..Len(s) : Ch(s, j) \notin Whitespace}))

\* e.split()[0] for a stripped, non-empty e
first_field(e) == SubSeq(e, 1, find_any(e, Whitespace, 1) - 1)

\* [e.strip().split()[0] for e in entries if e.strip()] (lines 99-100)
srcset_refs(entries) ==
    {first_field(strip(entries[k])) : k \in {n \in 1..Len(entries) : strip(entries[n]) # ""}}

\* the references of a match (lines 95-102)
refs_of(m) == IF find(m.g0, "srcset", 1) > 0 THEN srcset_refs(split(m.g, ",")) ELSE {m.g}

\* line 107
SkippedPrefixes == {"http://", "https://", "//", "data:", "mailto:", "#", "javascript:"}

is_skipped(ref) == ref = "" \/ \E p \in SkippedPrefixes : startswith(ref, p)

\* load_path.resolve()
RootAbs == <<"srv", "site">>

\* Path.resolve() of an absolute path: ".." leaves the directory reached so far
RECURSIVE resolve(_, _)
resolve(acc, parts) ==
    IF Len(parts) = 0 THEN acc
    ELSE IF Head(parts) = ".."
    THEN resolve(SubSeq(acc, 1, Len(acc) - 1), Tail(parts))
    ELSE resolve(Append(acc, Head(parts)), Tail(parts))

\* str(Path) of relative components
path_str(parts) == IF Len(parts) = 0 THEN "." ELSE Join(parts)

\* str(resolved.relative_to(load_path.resolve())) (lines 116-120): {} when
\* it raises ValueError
relative_to_root(abs) ==
    IF Len(abs) >= Len(RootAbs) /\ SubSeq(abs, 1, Len(RootAbs)) = RootAbs
    THEN {path_str(SubSeq(abs, Len(RootAbs) + 1, Len(abs)))}
    ELSE {}

\* the directory of a file of the tree, as components
parent(relpath) == SubSeq(Parts(relpath), 1, Len(Parts(relpath)) - 1)

\* lines 110-120: the root-relative path of a reference found in a file of the
\* directory file_dir. load_path / ref keeps the ".." of ref, and it is under
\* load_path.resolve() only when load_path is given resolved; given relative to
\* the working directory it is not.
resolved_relpath(ref, file_dir, given_resolved) ==
    IF startswith(ref, "/")
    THEN IF given_resolved THEN {path_str(Parts(lstrip_slash(ref)))} ELSE {}
    ELSE relative_to_root(resolve(<<>>, RootAbs \o file_dir \o Parts(ref)))

\* s.rstrip('/')
rstrip_slash(s) == SubSeq(s, 1, MaxOr0({j \in 1..Len(s) : Ch(s, j) # "/"}))

\* lines 122-125: the path, and the index.html under it when it has no suffix
with_directory_index(relpath) ==
    IF endswith(relpath, "/") \/ suffix(relpath) = ""
    THEN {relpath, rstrip_slash(relpath) \o "/index.html"}
    ELSE {relpath}

\* lines 102-125 for the references of one match
referenced_by(refs, file_dir, given_resolved) ==
    UNION {UNION {with_directory_index(p) :
                     p \in resolved_relpath(strip(ref), file_dir, given_resolved)} :
             ref \in {r \in refs : ~is_skipped(strip(r))}}

\* lines 88-91
patterns_of(ext) == IF ext = ".css" THEN {"url"} ELSE {"attr", "srcset", "url"}

\* lines 93-125 for one file
file_references(content, ext, file_dir, given_resolved) ==
    UNION {UNION {referenced_by(refs_of(m), file_dir, given_resolved) :
                     m \in ref_finditer(pattern, content)} :
             pattern \in patterns_of(ext)}

DocumentSuffixes == {".html", ".htm", ".css"}

\* find_referenced_assets (lines 57-127); the files of unreadable raise in read_text
find_referenced_assets(all_files, tree, given_resolved, unreadable) ==
    UNION {file_references(tree[all_files[k]], lower(suffix(all_files[k])),
                           parent(all_files[k]), given_resolved) :
             k \in {n \in 1..Len(all_files) :
                       /\ lower(suffix(all_files[n])) \in DocumentSuffixes
                       /\ all_files[n] \notin unreadable}}

\* a test that keeps every file
kept_always(relpath, referenced) == TRUE

\* lines 159-167: the file stays
kept(relpath, referenced) ==
    lower(suffix(relpath)) \in DocumentSuffixes \/ relpath \in referenced

filtered_by(all_files, referenced) == SelectSeq(all_files, LAMBDA f : kept(f, referenced))

\* lines 146-170 given the set of line 146
cleanup_with(all_files, referenced) ==
    [filtered |-> filtered_by(all_files, referenced),
     removed |-> Len(all_files) - Len(filtered_by(all_files, referenced))]

\* cleanup_unreferenced (lines 130-170): (filtered_files, removed_count)
cleanup_unreferenced(all_files, tree, given_resolved, unreadable) ==
    cleanup_with(all_files, find_referenced_assets(all_files, tree, given_resolved, unreadable))

\* at most this many references in the document of a run
MaxRefs == 2

AssetFrags == {"<img src=\"i.png\">", "<img SRC='/d/j.png?v=1'>", "<img src=\"../i.png\">",
               "<img src=\"/../secret.png\">", "<a href=\"/d/\">",
               "<img srcset=\"i.png 1x, d/j.png 2x\">", "<p style=\"background:url('/i.png')\">",
               "<img data-src=\"https://h/x.png\">"}

\* the Site Tree with the document doc at the path target
AssetTree(target, doc) ==
    (target :> doc) @@ ("index.html" :> "<p>" @@ "d/p.html" :> "<p>" @@ "d/s.css" :> ""
                        @@ "U.HTM" :> "" @@ "i.png" :> "I" @@ "d/j.png" :> "J"
                        @@ "orphan.png" :> "O" @@ "d/index.html" :> "")

AssetFiles == <<"U.HTM", "d/index.html", "d/j.png", "d/p.html", "d/s.css", "i.png",
                "index.html", "orphan.png">>

InitAssets ==
    /\ NoRun
    /\ input \in {[tree |-> AssetTree(target, Concat(fs)), all_files |-> AssetFiles,
                   target |-> target, given_resolved |-> r, unreadable |-> u] :
                     target \in {"index.html", "d/p.html", "d/s.css"},
                     fs \in SeqsUpTo(AssetFrags, MaxRefs),
                     r \in BOOLEAN,
                     u \in {{}, {"index.html"}}}
    /\ output = <<>>

\* the call of find_referenced_assets
FindAssets ==
    /\ output = <<>>
    /\ output' = <<find_referenced_assets(input.all_files, input.tree, input.given_resolved,
                                          input.unreadable)>>
    /\ UNCHANGED <<resolver_vars, input>>

\* the call of cleanup_unreferenced on the same tree
Cleanup ==
    /\ Len(output) = 1
    /\ output' = Append(output,
                        cleanup_unreferenced(input.all_files, input.tree,
                                             input.given_resolved, input.unreadable))
    /\ UNCHANGED <<resolver_vars, input>>

NextAssets == FindAssets \/ Cleanup

SpecAssets == InitAssets /\ [][NextAssets]_vars

\* the files of a sequence
members(fs) == {fs[k] : k \in 1..Len(fs)}

leaves_root(relpath) ==
    \E n \in 1..Len(Parts(relpath)) :
        2 * Cardinality({k \in 1..n : Parts(relpath)[k] = ".."}) > n

\* C20: every path of the set find_referenced_assets returns is inside the
\* root: a reference that resolves outside it adds nothing.
C20_ReferencesInsideRoot ==
    Len(output) >= 1 => \A r \in output[1] : ~leaves_root(r)

(***************************************************************************)
(* The phases after the Dependency Resolver, in the order of the control   *)
(* flow: the files are enumerated, the Cleanup Filter narrows the set, and *)
(* each remaining file goes through process_files.                         *)
(***************************************************************************)

\* one iteration of the loop of process_files (lines 252-312)
process_one(st, relpath, inp) ==
    IF file_ext(relpath) \in DOMAIN MIME_TYPES THEN mime_file(st, relpath, inp)
    ELSE IF endswith(relpath, ".html") \/ endswith(relpath, ".htm")
    THEN html_file(st, relpath, inp)
    ELSE unknown_file(st, relpath, inp)

\* the loop of process_files from the state st on (lines 252-312)
RECURSIVE process_files(_, _, _)
process_files(st, all_files, inp) ==
    IF st.i >= Len(all_files) THEN st
    ELSE process_files(process_one(st, all_files[st.i + 1], inp), all_files, inp)

BundleFrags == {"<img src=\"https://h/x.png\">", "<img src=\"/img/a.png\">",
                "<img src=\"i.png\">", "<p style=\"background:url(/img/a.png)\">",
                "<link rel=\"stylesheet\" href=\"//h/x.png\">"}

\* the Site Tree after the run that fetched https://h/x.png, with the document
\* doc at the path target
BundleTree(target, doc) ==
    (target :> doc) @@ ("index.html" :> "<p>" @@ "d/p.html" :> "<p>" @@ "d/s.css" :> ""
                        @@ "i.png" :> "I" @@ "d/i.png" :> "I" @@ "img/a.png" :> "A"
                        @@ "orphan.png" :> "O" @@ "_external/h/x.png" :> "DATA")

\* the enumeration of the files of the tree
BundleFiles == <<"_external/h/x.png", "d/i.png", "d/p.html", "d/s.css", "i.png",
                 "img/a.png", "index.html", "orphan.png">>

InitBundle ==
    /\ NoRun
    /\ input \in {[tree |-> BundleTree(target, Concat(fs)), all_files |-> BundleFiles,
                   target |-> target, given_resolved |-> r,
                   url_mapping |-> returned_mapping(fetched_all(<<"https://h/x.png">>)),
                   optimize_images |-> FALSE, optimizable |-> {},
                   faults |-> [f \in DOMAIN BundleTree(target, "") |-> NoFault],
                   unreadable |-> {}] :
                     target \in {"index.html", "d/p.html", "d/s.css"},
                     fs \in SeqsUpTo(BundleFrags, MaxRefs),
                     r \in BOOLEAN}
    /\ output = <<>>

\* a Cleanup Filter that deletes from the tree the files it removes from the list
BundleCleanupDeletes ==
    /\ output = <<>>
    /\ \E r \in {cleanup_unreferenced(input.all_files, input.tree, input.given_resolved,
                                       input.unreadable)} :
          /\ output' = <<r>>
          /\ input' = [input EXCEPT !.tree = [f \in members(r.filtered) |-> input.tree[f]]]
    /\ UNCHANGED resolver_vars

\* the Cleanup Filter on the enumerated files
BundleCleanup ==
    /\ output = <<>>
    /\ output' = <<cleanup_unreferenced(input.all_files, input.tree, input.given_resolved,
                                        input.unreadable)>>
    /\ UNCHANGED <<resolver_vars, input>>

\* process_files on the files the filter kept
BundleProcess ==
    /\ Len(output) = 1
    /\ output' = Append(output, process_files(LoopStart, output[1].filtered, input))
    /\ UNCHANGED <<resolver_vars, input>>

NextBundle == BundleCleanup \/ BundleProcess

SpecBundle == InitBundle /\ [][NextBundle]_vars

\* the items of the documents process_files added with their content
document_items(st) ==
    {st.calls[k].item : k \in {n \in 1..Len(st.calls) :
                                  /\ st.calls[n].returned
                                  /\ st.calls[n].item.fpath = <<>>}}

\* the files of the tree the content of an item refers to, from where it is
item_targets(item, tree) ==
    file_references(item.content, lower(suffix(item.path)), parent(item.path), TRUE)
        \cap DOMAIN tree

\* C22: every file of the Site Tree that the rewritten content of a kept
\* document refers to (relatively, from the root, or under _external/ in the
\* place of a mapped URL) is among the files cleanup_unreferenced keeps.
C22_CleanupKeepsBundleTargets ==
    Len(output) = 2 =>
        \A item \in document_items(output[2]) :
            item_targets(item, input.tree) \subseteq members(output[1].filtered)

(***************************************************************************)
(* The Download loop of resolve_external_dependencies (lines 185-192) over *)
(* the URLs in one order and in another                                    *)
(***************************************************************************)

\* the loop before its first iteration, on an empty tree
DownloadStart ==
    [outcome |-> "done", files |-> <<>>, dirs |-> {}, url_mapping |-> <<>>, requests |-> <<>>]

\* lines 188-189 for the result r of the download_resource call of line 188;
\* an exception out of the call ends the run
download_recorded(st, url, local_path, r) ==
    [outcome |-> IF r.ret = "raise" THEN "raised" ELSE st.outcome,
     files |-> r.files,
     dirs |-> r.dirs,
     url_mapping |-> IF r.ret = "True" THEN Put(st.url_mapping, url, local_path)
                     ELSE st.url_mapping,
     requests |-> st.requests \o r.requested]

\* the loop of lines 185-192 over the URLs in the order given, the network
\* answering the request for url if net_ok[url]
RECURSIVE download_loop(_, _, _)
download_loop(st, order, net_ok) ==
    IF order = <<>> \/ st.outcome = "raised" THEN st
    ELSE download_loop(
             download_recorded(st, Head(order), url_to_local_path(Head(order)),
                               download_resource(Head(order), url_to_local_path(Head(order)),
                                                 net_ok[Head(order)], "ok", st.files, st.dirs)),
             Tail(order), net_ok)

\* the most URLs of a run
MaxOrder == 3

OrderUrls == {"https://h/a", "https://h/a/b.css", "https://h/e.css", "//h/e.css"}

\* the orders in which the set urls_to_download can be iterated
Orders ==
    {o \in SeqsUpTo(OrderUrls, MaxOrder) : \A i, j \in 1..Len(o) : i # j => o[i] # o[j]}

\* two orders of the same URLs
OrderPairs ==
    {op \in Orders \X Orders :
        {op[1][i] : i \in 1..Len(op[1])} = {op[2][i] : i \in 1..Len(op[2])}}

InitOrder ==
    /\ NoRun
    /\ input \in {[order |-> op[1], other |-> op[2], net_ok |-> n] :
                     op \in OrderPairs, n \in [OrderUrls -> BOOLEAN]}
    /\ output = <<>>

\* the loop over the URLs in one order
DownloadInOrder ==
    /\ output = <<>>
    /\ output' = <<download_loop(DownloadStart, input.order, input.net_ok)>>
    /\ UNCHANGED <<resolver_vars, input>>

\* the loop over the same URLs in the other order, from the same empty tree
DownloadInOtherOrder ==
    /\ Len(output) = 1
    /\ output' = Append(output, download_loop(DownloadStart, input.other, input.net_ok))
    /\ UNCHANGED <<resolver_vars, input>>

NextOrder == DownloadInOrder \/ DownloadInOtherOrder

SpecOrder == InitOrder /\ [][NextOrder]_vars

\* the entries of a mapping, whatever their order
entries(m) == {m[i] : i \in 1..Len(m)}

\* the URLs of the order have pairwise distinct Local Paths
distinct_local_paths(o) ==
    \A i, j \in 1..Len(o) : i # j => url_to_local_path(o[i]) # url_to_local_path(o[j])

\* C24: for URLs with pairwise distinct Local Paths and the same fetch outcome
\* per URL, the loop ends the same way (normally or by an exception) and with
\* the same entries in url_mapping in either order.
C24_OrderIndependent ==
    (Len(output) = 2 /\ distinct_local_paths(input.order))
    => /\ output[1].outcome = output[2].outcome
       /\ entries(output[1].url_mapping) = entries(output[2].url_mapping)

(***************************************************************************)
(* download_resource called by two workers for the same destination, the   *)
(* steps of the calls interleaved at its file system and network calls     *)
(***************************************************************************)

Workers == {"w1", "w2"}

\* the components of the parent directory of the destination of url
dest_parent(url) ==
    SubSeq(Parts(url_to_local_path(url)), 1, Len(Parts(url_to_local_path(url))) - 1)

\* the last component of the destination of url
dest_name(url) == Parts(url_to_local_path(url))[Len(Parts(url_to_local_path(url)))]

\* the location of the destination once its parent is made
dest_at(url, fs_files, fs_dirs) ==
    step(mkdir_parents(fs_files, fs_dirs, <<>>, dest_parent(url)).at, dest_name(url))

WorkerUrls == {"https://h/e.css", "//h/a/b.css", "https://h/a"}

WorkerTrees ==
    {<<>>, ("_external/h/e.css" :> "OLD"), ("_external/h/e.css" :> ""),
     ("_external/h/a/b.css" :> "OLD")}

InitWorkers ==
    /\ NoRun
    /\ input \in {[url |-> u, files |-> t, dirs |-> site_dirs(t), net_ok |-> n] :
                     u \in WorkerUrls, t \in WorkerTrees, n \in [Workers -> BOOLEAN]}
    /\ output = [pc |-> [w \in Workers |-> "check"], ret |-> [w \in Workers |-> "none"],
                 files |-> input.files, dirs |-> input.dirs,
                 requests |-> <<>>, transfers |-> <<>>, writes |-> <<>>]

\* lines 112-114: the test of the destination
WorkerCheck(w) ==
    /\ output.pc[w] = "check"
    /\ output' = IF exists_nonempty(lookup(output.dirs, <<>>,
                                           Parts(url_to_local_path(input.url))),
                                    output.files, output.dirs)
                 THEN [output EXCEPT !.pc[w] = "done", !.ret[w] = "True"]
                 ELSE [output EXCEPT !.pc[w] = "mkdir"]
    /\ UNCHANGED <<resolver_vars, input>>

\* line 119: dest.parent.mkdir(parents=True, exist_ok=True)
WorkerMkdir(w) ==
    /\ output.pc[w] = "mkdir"
    /\ \E made \in {mkdir_parents(output.files, output.dirs, <<>>, dest_parent(input.url))} :
          output' = IF made.ok
                    THEN [output EXCEPT !.pc[w] = "request", !.dirs = made.dirs]
                    ELSE [output EXCEPT !.pc[w] = "done", !.ret[w] = "raise"]
    /\ UNCHANGED <<resolver_vars, input>>

\* lines 130-131: the request is sent and the response read, or the request
\* fails (line 136)
WorkerRequest(w) ==
    /\ output.pc[w] = "request"
    /\ output' = IF input.net_ok[w]
                 THEN [output EXCEPT !.pc[w] = "open", !.requests = Append(@, w),
                                     !.transfers = Append(@, w)]
                 ELSE [output EXCEPT !.pc[w] = "done", !.ret[w] = "False",
                                     !.requests = Append(@, w)]
    /\ UNCHANGED <<resolver_vars, input>>

\* line 132: open(dest, 'wb') empties the file, or fails on a directory (line 136)
WorkerOpen(w) ==
    /\ output.pc[w] = "open"
    /\ \E target \in {dest_at(input.url, output.files, output.dirs)} :
          output' = IF is_dir(output.dirs, target)
                    THEN [output EXCEPT !.pc[w] = "done", !.ret[w] = "False"]
                    ELSE [output EXCEPT !.pc[w] = "write",
                                        !.files = (Join(target) :> "") @@ @]
    /\ UNCHANGED <<resolver_vars, input>>

\* lines 133-135: the body is written and the call returns True
WorkerWrite(w) ==
    /\ output.pc[w] = "write"
    /\ \E r \in {write_body(input.url,
                            RemoteBody(IF startswith(input.url, "//")
                                       THEN "https:" \o input.url ELSE input.url),
                            "ok", dest_at(input.url, output.files, output.dirs),
                            output.files, output.dirs)} :
          output' = [output EXCEPT !.pc[w] = "done", !.ret[w] = r.ret, !.files = r.files,
                                   !.writes = Append(@, w)]
    /\ UNCHANGED <<resolver_vars, input>>

NextWorkers ==
    \E w \in Workers :
        \/ WorkerCheck(w)
        \/ WorkerMkdir(w)
        \/ WorkerRequest(w)
        \/ WorkerOpen(w)
        \/ WorkerWrite(w)

SpecWorkers == InitWorkers /\ [][NextWorkers]_vars

\* C25: of two workers called for the same destination at most one receives
\* the body and at most one writes the destination, so that what the first
\* writer wrote is not written over.
C25_OneWorkerTransfers ==
    /\ Len(output.transfers) <= 1
    /\ Len(output.writes) <= 1

\* C28: the Cleanup Filter and the rewriting of the files it keeps leave the
\* Site Tree and url_mapping as they are: no file of the tree is written,
\* changed or deleted and no entry of the mapping is added, removed or changed.
C28_PhasesReadOnly ==
    [][input.tree' = input.tree /\ input.url_mapping' = input.url_mapping]_vars

\* the filter took files off the list and index.html went into the archive with
\* its mapped URL rewritten, while the file in the tree reads as before
C28_Witness ==
    /\ Len(output) = 2
    /\ output[1].removed > 0
    /\ input.tree["index.html"] = "<img src=\"https://h/x.png\">"
    /\ \E item \in document_items(output[2]) :
          item.path = "index.html" /\ item.content = "<img src=\"_external/h/x.png\">"

(***************************************************************************)
(* The normal mode of website_converter.py (lines 547-673): the loop over  *)
(* all_files, the try block that follows it, and the metadata              *)
(***************************************************************************)

\* the files of a run: the first n files of the tree
ScriptFiles == {SubSeq(AllFiles, 1, n) : n \in 0..Len(AllFiles)}

InitScript ==
    /\ NoRun
    /\ input \in {[tree |-> FileTree(doc), all_files |-> fs, url_mapping |-> <<>>,
                   optimize_images |-> o, optimizable |-> {"i.PNG"}, faults |-> g] :
                     doc \in RefFrags, fs \in ScriptFiles, o \in BOOLEAN,
                     g \in {h \in [FileNames -> FaultPool] :
                               Cardinality({f \in DOMAIN h : h[f] # NoFault}) <= 1}}
    /\ output = [loop |-> 0, pc |-> "for", metadata |-> FALSE] @@ LoopStart

\* lines 563-573: one iteration of the for loop, whose body binds relpath,
\* depth, title and ext to the file and does nothing else
ScriptFor ==
    /\ output.pc = "for"
    /\ output.loop < Len(input.all_files)
    /\ output' = [output EXCEPT !.loop = @ + 1]
    /\ UNCHANGED <<resolver_vars, input>>

\* lines 575-656, after the loop: the try block runs once, on the file the
\* loop variables were last bound to; with no file they are unbound, the
\* NameError is raised again by the handler of line 654 (which reads filepath)
\* and the run ends at line 671 (sys.exit)
ScriptTry ==
    /\ output.pc = "for"
    /\ output.loop = Len(input.all_files)
    /\ output' = IF output.loop = 0 THEN [output EXCEPT !.pc = "exit"]
                 ELSE [process_one(output, input.all_files[output.loop], input)
                          EXCEPT !.pc = "metadata"]
    /\ UNCHANGED <<resolver_vars, input>>

\* lines 661-668: the metadata is added
ScriptMetadata ==
    /\ output.pc = "metadata"
    /\ output' = [output EXCEPT !.pc = "end", !.metadata = TRUE]
    /\ UNCHANGED <<resolver_vars, input>>

NextScript == ScriptFor \/ ScriptTry \/ ScriptMetadata

SpecScript == InitScript /\ [][NextScript]_vars

\* C30: when the metadata is about to be added, every file of all_files has
\* been handled: one item was passed to creator.add_item for it, or one entry
\* of lst_errors names it, and not both.
C30_EveryFileHandled ==
    output.pc \in {"metadata", "end"} =>
        \A k \in 1..Len(input.all_files) :
            Cardinality(added(input.all_files[k]))
            + Cardinality(error_entries(input.all_files[k])) = 1
====
